---- MODULE Spec2Model ----
(***************************************************************************)
(* The socket entry point of the CinemaSync backend (src/src/index.js)    *)
(* and the Room / User document methods it calls (src/src/models/Room.js, *)
(* src/unnamed/part_003), as a state machine.                              *)
(*                                                                         *)
(* Granularity.  Node runs the synchronous part of a handler without      *)
(* interruption; a handler is suspended only at an `await` of a store     *)
(* operation.  Every action below is one such uninterrupted segment: the  *)
(* dispatch action runs a handler up to its first await, and every        *)
(* continuation action performs the awaited store operation and then the  *)
(* synchronous code up to the next await.  Handlers of different          *)
(* connections, and different handlers of one connection, interleave at   *)
(* these points.                                                           *)
(*                                                                         *)
(* Store.  Model.updateOne applies its update to the stored document.     *)
(* document.save() writes the paths the handler modified on its loaded    *)
(* copy (Mongoose change tracking): an element of participants is         *)
(* addressed by its index, and a path assigned the value it already had   *)
(* on the loaded copy is not written.                                      *)
(***************************************************************************)
EXTENDS Integers, Sequences, FiniteSets, TLC

\* ------------------------------------------------------------ universe
Conns == {"c1", "c2", "c3"}
Users == {"h", "a", "b"}
Rooms == {"r1", "r2"}
Null == "null"

\* What a client may present as data.token: the id a valid JWT decodes to,
\* no token, a token that fails verification, a valid token of a deleted user.
NoToken == "none"
BadToken == "bad"
GoneToken == "gone"

\* Requests one connection may send (authenticate, join-room, ...).
MaxReq == 3
\* Requests one connection may send in the capacity scenario.
MaxReqCap == 2
\* Requests one connection may send in the concurrent specifications.
MaxReqRace == 2
\* Requests one connection may send in the signaling specification.
MaxReqRelay == 3
\* Authenticate requests the third connection may send in the presence
\* specification; the other two may send one fewer.
MaxReqPresence == 2
\* join-room requests one connection may send in the two-identity join race.
MaxReqJoin == 2
\* Playback requests one connection may send in the two-tabs-of-the-host
\* specification.
MaxReqOnce == 1
\* Requests one connection may send in the request-order specification.
MaxReqOrder == 2
\* Requests one connection may send in the store-failure specification.
MaxReqFail == 1
\* Requests the connection of a may send in the admission specification.
MaxReqAdmit == 3
\* maxParticipants of the public room of the admission specification.
MaxSeats == 2
\* Requests one connection may send in the host specification.
MaxReqHost == 2
\* Requests one client may send in the sign-out specification.
MaxReqSignOut == 2
\* Requests one connection may send in the signaling specification.
MaxReqSignal == 2
\* Requests one connection may send in the chat specification.
MaxReqChat == 2
\* Requests one connection may send in the failing-store authentication
\* specification.
MaxReqAuth == 2
\* join-room requests per connection where the store may fail.
MaxReqJoinFail == 2

\* join-room / leave-room requests per connection while delayed emits are pending.
MaxReqDelay == 2

\* Largest maxParticipants of a room.
MaxCap == 3
\* Playback requests one connection may send.
MaxReqPlay == 2
\* Largest playback time a client sends.
MaxTime == 2

VARIABLES
  sock,        \* connection -> "none" | "open" | "closed"
  userId,      \* socket.userId
  roomId,      \* socket.roomId
  chans,       \* the socket.io rooms the socket is in (socket.join / socket.leave)
  userSockets, \* the Map userSockets: a function whose DOMAIN is the Map's keys
  isOnline,    \* User.isOnline of every stored user
  rooms,       \* the stored Room documents
  nextOid,     \* source of fresh subdocument _id values
  auth,        \* per connection: its 'authenticate' handler in flight
  join,        \* per connection: its 'join-room' handler in flight
  leave,       \* per connection: its 'leave-room' handler in flight
  disc,        \* per connection: its 'disconnect' handler
  video,       \* per connection: its video-play/pause/seek/metadata handler in flight
  sync,        \* per connection: its request-room-sync / host-room-check / force-room-sync handler in flight
  timers,      \* pending setTimeout callbacks
  out,         \* the events emitted by the last step, in order
  tokens,      \* the tokens each client holds (its environment; never changes)
  budget,      \* requests each connection may still send
  hist         \* observer: outcomes of completed join-room / leave-room requests

sockVars == <<sock, userId, roomId, chans>>
dbVars == <<isOnline, rooms, nextOid>>
handlerVars == <<auth, join, leave, disc, video, sync>>
envVars == <<tokens, budget>>
\* hist is assigned by the specification's observer, not by the program's actions
progVars == <<sockVars, userSockets, dbVars, handlerVars, timers, out, envVars>>
vars == <<progVars, hist>>

\* ------------------------------------------------------------ helpers
Live(c) == sock[c] = "open"

\* One emit call: the event, the emitting socket, the connections it is delivered to.
Emit(ev, from, to, room, data) ==
  [ev |-> ev, from |-> from, to |-> to, room |-> room, data |-> data]

\* a plausible slip: io.emit for socket.emit
ToSocket_everyone(c) == {d \in Conns : Live(d)}

\* socket.emit: delivered to the socket itself while it is connected
ToSocket(c) == IF Live(c) THEN {c} ELSE {}
\* io.to(r): every connected socket in channel r
InRoom(r) == {d \in Conns : Live(d) /\ r \in chans[d]}
\* a plausible slip: io.to(r) for socket.to(r)
Others_includesSender(c, r) == InRoom(r)

\* socket.to(r): every connected socket in channel r except the sender
Others(c, r) == InRoom(r) \ {c}

\* ------------------------------------------------------------ Connection Registry
addUserSocket(m, u, c) ==
  LET set == IF u \in DOMAIN m THEN m[u] ELSE {}
  IN [k \in DOMAIN m \cup {u} |-> IF k = u THEN set \cup {c} ELSE m[k]]

\* a plausible slip: the identity's whole entry is dropped
removeUserSocket_dropsEntry(m, u, c) ==
  IF u \notin DOMAIN m THEN m ELSE [k \in DOMAIN m \ {u} |-> m[k]]

\* a plausible slip: the emptied set stays in the Map
removeUserSocket_keepsEmpty(m, u, c) ==
  IF u \notin DOMAIN m THEN m ELSE [m EXCEPT ![u] = m[u] \ {c}]

removeUserSocket(m, u, c) ==
  IF u \notin DOMAIN m THEN m
  ELSE LET set == m[u] \ {c}
       IN IF set = {} THEN [k \in DOMAIN m \ {u} |-> m[k]]
          ELSE [m EXCEPT ![u] = set]

getUserSocketIds(m, u) == IF u \in DOMAIN m THEN m[u] ELSE {}

\* ------------------------------------------------------------ handler records
AuthIdle == [pc |-> "idle", user |-> Null, loaded |-> FALSE]
JoinIdle == [pc |-> "idle", room |-> Null, user |-> Null, existing |-> FALSE,
             snap |-> <<>>, n |-> 0]
\* 'leave-room' locals: the room loaded, what removeParticipant modified on
\* the loaded copy, the room re-read afterwards.
LeaveIdle == [pc |-> "idle", user |-> Null, room |-> Null, room2 |-> Null, idx |-> 0,
              setInactive |-> FALSE, setCount |-> FALSE, count |-> 0]
\* 'disconnect' has one more local: remaining, the identity's registered
\* sockets after this one was taken out.  At "done" the record keeps the locals
\* the handler ended with.
DiscIdle == [pc |-> "idle", user |-> Null, room |-> Null, room2 |-> Null, idx |-> 0,
             setInactive |-> FALSE, setCount |-> FALSE, count |-> 0, remaining |-> {}]
\* a client that sends no number (video-play without currentTime, ...)
NotANumber == -1
NoFile == 0
VideoIdle == [pc |-> "idle", kind |-> Null, room |-> Null, arg |-> 0,
              ps |-> [isPlaying |-> FALSE, currentTime |-> 0],
              setStatus |-> FALSE, status |-> "waiting"]
\* the locals of a sync handler: the active participants it read, their number,
\* and the host and playback state of the room it read
SyncIdle == [pc |-> "idle", kind |-> Null, room |-> Null, snap |-> <<>>, n |-> 0,
             host |-> Null, ps |-> [isPlaying |-> FALSE, currentTime |-> 0]]

\* ------------------------------------------------------------ Room documents
NoRoom == [exists |-> FALSE, host |-> Null, isPrivate |-> FALSE, maxParticipants |-> 0,
           currentParticipants |-> 0, participants |-> <<>>,
           playbackState |-> [isPlaying |-> FALSE, currentTime |-> 0],
           status |-> "waiting", videoFile |-> NoFile, password |-> Null]

Participant(u, oid) == [user |-> u, isActive |-> TRUE, isHost |-> FALSE, oid |-> oid]

\* roomController.js 31-52 createRoom: new Room, addParticipant(host) on the
\* empty roster (the isHost argument is not a parameter of addParticipant).
CreatedRoom(host, private, max) ==
  [NoRoom EXCEPT !.exists = TRUE, !.host = host, !.isPrivate = private,
                 !.maxParticipants = max, !.currentParticipants = 1,
                 !.participants = <<Participant(host, 0)>>]

ActiveOf(parts) == SelectSeq(parts, LAMBDA p : p.isActive)
RecordsOf(parts, u) == SelectSeq(parts, LAMBDA p : p.user = u)

\* Array.prototype.find on the user id: the first matching index, 0 for none
FindIdx(parts, u) ==
  IF \E i \in 1..Len(parts) : parts[i].user = u
    THEN CHOOSE i \in 1..Len(parts) :
           /\ parts[i].user = u
           /\ \A j \in 1..(i - 1) : parts[j].user # u
    ELSE 0

\* p.user.toString(): the id of an unpopulated reference; the printed form of
\* the user document when participants.user is populated.
UserToString(u, populated) == [doc |-> populated, id |-> u]

\* a plausible slip: > for >=
canUserJoin_offByOne(doc, u, populated) ==
  IF doc.currentParticipants > doc.maxParticipants THEN "Room is full"
  ELSE IF doc.isPrivate
          /\ ~ \E i \in 1..Len(doc.participants) :
                 UserToString(doc.participants[i].user, populated) = UserToString(u, FALSE)
    THEN "Private room"
  ELSE "ok"

\* Room.js 235-245
canUserJoin(doc, u, populated) ==
  IF doc.currentParticipants >= doc.maxParticipants THEN "Room is full"
  ELSE IF doc.isPrivate
          /\ ~ \E i \in 1..Len(doc.participants) :
                 UserToString(doc.participants[i].user, populated) = UserToString(u, FALSE)
    THEN "Private room"
  ELSE "ok"

\* a plausible slip: elements are compared by their flags only
AddToSet_byFlags(parts, p) ==
  IF \E i \in 1..Len(parts) : parts[i].isActive = p.isActive /\ parts[i].isHost = p.isHost
    THEN parts ELSE Append(parts, p)

\* $addToSet: appends unless an equal element is in the array
AddToSet(parts, p) ==
  IF \E i \in 1..Len(parts) : parts[i] = p THEN parts ELSE Append(parts, p)

\* { 'participants.user': u }, $set 'participants.$.isActive': the first match
SetActiveFirst(parts, u) ==
  LET i == FindIdx(parts, u)
  IN IF i = 0 THEN parts ELSE [parts EXCEPT ![i].isActive = TRUE]

\* a plausible slip: the active records are counted before the record is marked
removeParticipant_countsFirst(h, doc, u) ==
  LET i == FindIdx(doc.participants, u)
      local == IF i = 0 THEN doc.participants
               ELSE [doc.participants EXCEPT ![i].isActive = FALSE]
      n == Len(ActiveOf(doc.participants))
  IN [h EXCEPT !.idx = i,
               !.setInactive = (i # 0 /\ doc.participants[i].isActive),
               !.setCount = (i # 0 /\ n # doc.currentParticipants),
               !.count = n]

\* Room.js 188-206 addParticipant and its save, on a copy nobody else writes:
\* a new record is pushed and the count recomputed; an existing record is set
\* active and the count is left as loaded.
addParticipant(doc, u, oid) ==
  LET i == FindIdx(doc.participants, u)
  IN IF i = 0
       THEN LET parts == Append(doc.participants, Participant(u, oid))
            IN [doc EXCEPT !.participants = parts,
                           !.currentParticipants = Len(ActiveOf(parts))]
       ELSE [doc EXCEPT !.participants[i].isActive = TRUE]

\* Room.js 209-217 removeParticipant on a loaded copy: what it modifies
removeParticipant(h, doc, u) ==
  LET i == FindIdx(doc.participants, u)
      local == IF i = 0 THEN doc.participants
               ELSE [doc.participants EXCEPT ![i].isActive = FALSE]
      n == Len(ActiveOf(local))
  IN [h EXCEPT !.idx = i,
               !.setInactive = (i # 0 /\ doc.participants[i].isActive),
               !.setCount = (i # 0 /\ n # doc.currentParticipants),
               !.count = n]

\* this.save() of the copy removeParticipant modified
SaveRemoved(doc, h) ==
  IF h.idx = 0 THEN doc
  ELSE [doc EXCEPT !.participants[h.idx].isActive = IF h.setInactive THEN FALSE ELSE @,
                   !.currentParticipants = IF h.setCount THEN h.count ELSE @]

\* ------------------------------------------------------------ authenticate
\* index.js 78-87: no token -> 'auth-error'; the dynamic import resolves before
\* any other event is dispatched; jwt.verify throws on a bad token -> catch.
Authenticate(c, tok) ==
  /\ Live(c) /\ budget[c] > 0 /\ auth[c].pc = "idle"
  /\ tok \in tokens[c]
  /\ budget' = [budget EXCEPT ![c] = @ - 1]
  /\ IF tok = NoToken
       THEN /\ out' = <<Emit("auth-error", c, ToSocket(c), Null, "Token required")>>
            /\ UNCHANGED auth
       ELSE IF tok = BadToken
       THEN /\ out' = <<Emit("auth-error", c, ToSocket(c), Null, "Authentication failed")>>
            /\ UNCHANGED auth
       ELSE /\ out' = <<>>
            /\ auth' = [auth EXCEPT ![c] = [pc |-> "findUser", user |-> tok, loaded |-> FALSE]]
  /\ UNCHANGED <<sockVars, userSockets, dbVars, join, leave, disc, video, sync, timers, tokens>>

\* index.js 88-96: User.findById returns; bind the socket, register it,
\* call user.updateOnlineStatus(true) (its save is the next await).
AuthFindUser(c) ==
  /\ auth[c].pc = "findUser"
  /\ IF auth[c].user = GoneToken
       THEN /\ out' = <<Emit("auth-error", c, ToSocket(c), Null, "Invalid token")>>
            /\ auth' = [auth EXCEPT ![c] = AuthIdle]
            /\ UNCHANGED <<userId, userSockets>>
       ELSE /\ userId' = [userId EXCEPT ![c] = auth[c].user]
            /\ userSockets' = addUserSocket(userSockets, auth[c].user, c)
            /\ auth' = [auth EXCEPT ![c].pc = "saveOnline",
                                    ![c].loaded = isOnline[auth[c].user]]
            /\ out' = <<>>
  /\ UNCHANGED <<sock, roomId, chans, dbVars, join, leave, disc, video, sync, timers, envVars>>

\* part_003 71-75 updateOnlineStatus: isOnline is written when it differs from
\* the loaded value (lastSeen always is); then index.js 98 'authenticated'.
AuthSaved(c) ==
  /\ auth[c].pc = "saveOnline"
  /\ isOnline' = IF auth[c].loaded THEN isOnline
                 ELSE [isOnline EXCEPT ![auth[c].user] = TRUE]
  /\ out' = <<Emit("authenticated", c, ToSocket(c), Null, auth[c].user)>>
  /\ auth' = [auth EXCEPT ![c] = AuthIdle]
  /\ UNCHANGED <<sockVars, userSockets, rooms, nextOid, join, leave, disc, video, sync,
                 timers, envVars>>

\* index.js 96, 99-101: the save of updateOnlineStatus(true) rejects (the store
\* is unreachable); the catch block emits 'auth-error'.  socket.userId and the
\* registry were assigned before the await (index.js 93-95).
AuthSaveFails(c) ==
  /\ auth[c].pc = "saveOnline"
  /\ out' = <<Emit("auth-error", c, ToSocket(c), Null, "Authentication failed")>>
  /\ auth' = [auth EXCEPT ![c] = AuthIdle]
  /\ UNCHANGED <<sockVars, userSockets, dbVars, join, leave, disc, video, sync,
                 timers, envVars>>

\* ------------------------------------------------------------ disconnect
\* The transport closes: socket.io takes the socket out of its channels and
\* fires 'disconnect'.  index.js 561-570, up to the first await.
Disconnect(c) ==
  /\ Live(c) /\ disc[c].pc = "idle"
  /\ sock' = [sock EXCEPT ![c] = "closed"]
  /\ chans' = [chans EXCEPT ![c] = {}]
  /\ out' = <<>>
  /\ LET u == userId[c]
         reg == IF u # Null THEN removeUserSocket(userSockets, u, c) ELSE userSockets
         remaining == getUserSocketIds(reg, u)
     IN /\ userSockets' = reg
        /\ disc' = [disc EXCEPT ![c] =
             IF u # Null /\ remaining = {}
               THEN [DiscIdle EXCEPT !.pc = "offline", !.user = u]
             ELSE IF roomId[c] # Null /\ u # Null
               THEN [DiscIdle EXCEPT !.pc = "findRoom", !.user = u, !.room = roomId[c],
                                     !.remaining = remaining]
             ELSE [DiscIdle EXCEPT !.pc = "done", !.user = u, !.remaining = remaining]]
  /\ UNCHANGED <<userId, roomId, dbVars, auth, join, leave, video, sync, timers, envVars>>

\* index.js 566-570: User.findByIdAndUpdate(isOnline: false) returns.
DiscOffline(c) ==
  /\ disc[c].pc = "offline"
  /\ isOnline' = [isOnline EXCEPT ![disc[c].user] = FALSE]
  /\ disc' = [disc EXCEPT ![c] =
       IF roomId[c] # Null /\ userId[c] # Null
         THEN [@ EXCEPT !.pc = "findRoom", !.room = roomId[c]]
         ELSE [@ EXCEPT !.pc = "done"]]
  /\ out' = <<>>
  /\ UNCHANGED <<sockVars, userSockets, rooms, nextOid, auth, join, leave, video, sync,
                 timers, envVars>>

\* index.js 566, 585-586: User.findByIdAndUpdate rejects (the store is
\* unreachable); the rejection is thrown at the await into the handler's one
\* catch block, which is empty, and the handler ends there.
DiscOfflineFails(c) ==
  /\ disc[c].pc = "offline"
  /\ disc' = [disc EXCEPT ![c] = [@ EXCEPT !.pc = "done"]]
  /\ out' = <<>>
  /\ UNCHANGED <<sockVars, userSockets, dbVars, auth, join, leave, video, sync, timers, envVars>>

\* index.js 569-573: Room.findById returns; removeParticipant on the loaded copy
DiscFindRoom(c) ==
  /\ disc[c].pc = "findRoom"
  /\ LET doc == rooms[disc[c].room]
     IN disc' = [disc EXCEPT ![c] =
          IF ~ doc.exists THEN [@ EXCEPT !.pc = "done"]
          ELSE [removeParticipant(@, doc, userId[c]) EXCEPT !.pc = "save"]]
  /\ out' = <<>>
  /\ UNCHANGED <<sockVars, userSockets, dbVars, auth, join, leave, video, sync, timers, envVars>>

\* index.js 572-573: the save returns; Room.findById(socket.roomId) is issued
DiscSave(c) ==
  /\ disc[c].pc = "save"
  /\ rooms' = [rooms EXCEPT ![disc[c].room] = SaveRemoved(@, disc[c])]
  /\ disc' = [disc EXCEPT ![c].pc = "reload", ![c].room2 = roomId[c]]
  /\ out' = <<>>
  /\ UNCHANGED <<sockVars, userSockets, isOnline, nextOid, auth, join, leave, video, sync,
                 timers, envVars>>

\* index.js 573-583: the re-read returns; 'user-left' and 'peer-left' to the
\* rest of the channel.  A null re-read throws into the empty catch.
DiscReload(c) ==
  /\ disc[c].pc = "reload"
  /\ LET r2 == disc[c].room2
     IN out' = IF r2 = Null \/ ~ rooms[r2].exists THEN <<>>
               ELSE <<Emit("user-left", c, Others(c, roomId[c]), roomId[c],
                           rooms[r2].participants),
                      Emit("peer-left", c, Others(c, roomId[c]), roomId[c], userId[c])>>
  /\ disc' = [disc EXCEPT ![c] = [DiscIdle EXCEPT !.pc = "done", !.user = disc[c].user,
                                                  !.remaining = disc[c].remaining]]
  /\ UNCHANGED <<sockVars, userSockets, dbVars, auth, join, leave, video, sync, timers, envVars>>

\* ------------------------------------------------------------ join-room
\* index.js 105-116, up to Room.findById
JoinRoom(c, r) ==
  /\ Live(c) /\ budget[c] > 0 /\ join[c].pc = "idle"
  /\ budget' = [budget EXCEPT ![c] = @ - 1]
  /\ IF userId[c] = Null
       THEN /\ out' = <<Emit("error", c, ToSocket(c), r, "Not authenticated")>>
            /\ UNCHANGED join
       ELSE /\ out' = <<>>
            /\ join' = [join EXCEPT ![c] = [JoinIdle EXCEPT !.pc = "findRoom", !.room = r]]
  /\ UNCHANGED <<sockVars, userSockets, dbVars, auth, leave, disc, video, sync, timers, tokens>>

\* index.js 117-164: the (populated) room is loaded, none for a payload without
\* roomId; eligibility (no password is read from the payload); socket.join,
\* socket.roomId; the participant update is issued.
JoinFindRoom(c) ==
  /\ join[c].pc = "findRoom"
  /\ LET r == join[c].room
         doc == IF r \in Rooms THEN rooms[r] ELSE NoRoom
         reason == IF ~ doc.exists THEN "Room not found"
                   ELSE canUserJoin(doc, userId[c], TRUE)
     IN IF reason # "ok"
          THEN /\ out' = <<Emit("error", c, ToSocket(c), r, reason)>>
               /\ join' = [join EXCEPT ![c] = JoinIdle]
               /\ UNCHANGED <<roomId, chans>>
          ELSE /\ out' = <<>>
               /\ chans' = [chans EXCEPT ![c] = @ \cup {r}]
               /\ roomId' = [roomId EXCEPT ![c] = r]
               /\ join' = [join EXCEPT ![c].pc = "upsert",
                                       ![c].user = userId[c],
                                       ![c].existing = (FindIdx(doc.participants, userId[c]) # 0)]
  /\ UNCHANGED <<sock, userId, userSockets, dbVars, auth, leave, disc, video, sync, timers, envVars>>

\* index.js 137-169: Room.updateOne returns ($addToSet of a new participant,
\* or $set on the matched one); the room is read again.
JoinUpsert(c) ==
  /\ join[c].pc = "upsert"
  /\ LET r == join[c].room
         u == join[c].user
     IN IF join[c].existing
          THEN /\ rooms' = [rooms EXCEPT ![r].participants = SetActiveFirst(@, u)]
               /\ UNCHANGED nextOid
          ELSE /\ rooms' = [rooms EXCEPT ![r].participants =
                              AddToSet(@, Participant(u, nextOid))]
               /\ nextOid' = nextOid + 1
  /\ join' = [join EXCEPT ![c].pc = "reload"]
  /\ out' = <<>>
  /\ UNCHANGED <<sockVars, userSockets, isOnline, auth, leave, disc, video, sync, timers, envVars>>

\* index.js 167-177: the re-read returns; the active participants are counted
\* and the count update is issued.
JoinReload(c) ==
  /\ join[c].pc = "reload"
  /\ LET active == ActiveOf(rooms[join[c].room].participants)
     IN join' = [join EXCEPT ![c].pc = "setCount", ![c].snap = active,
                             ![c].n = Len(active)]
  /\ out' = <<>>
  /\ UNCHANGED <<sockVars, userSockets, dbVars, auth, leave, disc, video, sync, timers, envVars>>

\* index.js 174-224: the count update returns; 'room-joined', then
\* 'participants-updated' and 'user-joined'; the two delayed emits are scheduled.
JoinSetCount(c) ==
  /\ join[c].pc = "setCount"
  /\ LET r == join[c].room
         data == [participants |-> join[c].snap, currentParticipants |-> join[c].n]
     IN /\ rooms' = [rooms EXCEPT ![r].currentParticipants = join[c].n]
        /\ out' = <<Emit("room-joined", c, ToSocket(c), r, data),
                    Emit("participants-updated", c, InRoom(r), r, data),
                    Emit("user-joined", c, Others(c, r), r, data)>>
        /\ timers' = timers \cup
             {[kind |-> "room-sync", conn |-> c, room |-> r, snap |-> join[c].snap],
              [kind |-> "peer-joined", conn |-> c, room |-> r, snap |-> <<>>]}
  /\ join' = [join EXCEPT ![c] = JoinIdle]
  /\ UNCHANGED <<sockVars, userSockets, isOnline, nextOid, auth, leave, disc, video, sync, envVars>>

\* a plausible slip: a catch block that only logs
JoinCatch_silent(c) ==
  /\ out' = <<>>
  /\ join' = [join EXCEPT ![c] = JoinIdle]
  /\ UNCHANGED <<sockVars, userSockets, dbVars, auth, leave, disc, video, sync, timers, envVars>>

\* index.js 226-229: a rejection thrown at an await of the handler lands in its
\* one catch block, which emits 'error' {error: 'Failed to join room'} to the
\* requester and ends the handler; it undoes nothing.
JoinCatch(c) ==
  /\ out' = <<Emit("error", c, ToSocket(c), join[c].room, "Failed to join room")>>
  /\ join' = [join EXCEPT ![c] = JoinIdle]
  /\ UNCHANGED <<sockVars, userSockets, dbVars, auth, leave, disc, video, sync, timers, envVars>>

\* index.js 114-116: Room.findById rejects (the store is unreachable, or the
\* roomId is not an id the store can cast).
JoinFindRoomFails(c) ==
  /\ join[c].pc = "findRoom"
  /\ JoinCatch(c)

\* index.js 137-163: the participant update rejects; socket.join and
\* socket.roomId (131-132) have already run.
JoinUpsertFails(c) ==
  /\ join[c].pc = "upsert"
  /\ JoinCatch(c)

\* index.js 167-171: the re-read rejects, or returns no room (deleted in the
\* meantime) so that room.participants throws.
JoinReloadFails(c) ==
  /\ join[c].pc = "reload"
  /\ JoinCatch(c)

\* index.js 174-177: the count update rejects.
JoinSetCountFails(c) ==
  /\ join[c].pc = "setCount"
  /\ JoinCatch(c)

\* index.js 216-224: a delayed callback runs; the 200 ms 'room-sync' of a join
\* precedes its 500 ms 'peer-joined'.
TimerFire(t) ==
  /\ t \in timers
  /\ t.kind = "peer-joined" =>
       ~ \E s \in timers : s.kind = "room-sync" /\ s.conn = t.conn /\ s.room = t.room
  /\ timers' = timers \ {t}
  /\ out' = IF t.kind = "room-sync"
              THEN <<Emit("room-sync", t.conn, InRoom(t.room), t.room,
                          [participants |-> t.snap, currentParticipants |-> Len(t.snap)])>>
              ELSE <<Emit("peer-joined", t.conn, Others(t.conn, t.room), t.room,
                          userId[t.conn])>>
  /\ UNCHANGED <<sockVars, userSockets, dbVars, handlerVars, envVars>>

\* ------------------------------------------------------------ leave-room
\* index.js 232-235, up to Room.findById(socket.roomId)
LeaveRoom(c) ==
  /\ Live(c) /\ budget[c] > 0 /\ leave[c].pc = "idle"
  /\ budget' = [budget EXCEPT ![c] = @ - 1]
  /\ IF roomId[c] = Null \/ userId[c] = Null
       THEN UNCHANGED leave
       ELSE leave' = [leave EXCEPT ![c] = [LeaveIdle EXCEPT !.pc = "findRoom",
                                                          !.room = roomId[c]]]
  /\ out' = <<>>
  /\ UNCHANGED <<sockVars, userSockets, dbVars, auth, join, disc, video, sync, timers, tokens>>

\* index.js 235-237: the room is loaded; removeParticipant on the loaded copy.
\* No room: socket.leave(socket.roomId), socket.roomId = null.
LeaveFindRoom(c) ==
  /\ leave[c].pc = "findRoom"
  /\ LET doc == rooms[leave[c].room]
     IN IF ~ doc.exists
          THEN /\ leave' = [leave EXCEPT ![c] = LeaveIdle]
               /\ chans' = [chans EXCEPT ![c] = @ \ {roomId[c]}]
               /\ roomId' = [roomId EXCEPT ![c] = Null]
          ELSE /\ leave' = [leave EXCEPT ![c] =
                              [removeParticipant(leave[c], doc, userId[c]) EXCEPT !.pc = "save"]]
               /\ UNCHANGED <<roomId, chans>>
  /\ out' = <<>>
  /\ UNCHANGED <<sock, userId, userSockets, dbVars, auth, join, disc, video, sync, timers, envVars>>

\* index.js 237-238: the save returns; Room.findById(socket.roomId) is issued
LeaveSave(c) ==
  /\ leave[c].pc = "save"
  /\ rooms' = [rooms EXCEPT ![leave[c].room] = SaveRemoved(@, leave[c])]
  /\ leave' = [leave EXCEPT ![c].pc = "reload", ![c].room2 = roomId[c]]
  /\ out' = <<>>
  /\ UNCHANGED <<sockVars, userSockets, isOnline, nextOid, auth, join, disc, video, sync,
                 timers, envVars>>

\* index.js 238-250: the re-read returns; 'user-left' and 'peer-left' to the
\* rest of the channel, then socket.leave and socket.roomId = null.  A null
\* re-read throws into the empty catch before the binding is released.
LeaveReload(c) ==
  /\ leave[c].pc = "reload"
  /\ LET r2 == leave[c].room2
     IN IF r2 = Null \/ ~ rooms[r2].exists
          THEN /\ out' = <<>>
               /\ UNCHANGED <<roomId, chans>>
          ELSE /\ out' = <<Emit("user-left", c, Others(c, roomId[c]), roomId[c],
                                rooms[r2].participants),
                           Emit("peer-left", c, Others(c, roomId[c]), roomId[c], userId[c])>>
               /\ chans' = [chans EXCEPT ![c] = @ \ {roomId[c]}]
               /\ roomId' = [roomId EXCEPT ![c] = Null]
  /\ leave' = [leave EXCEPT ![c] = LeaveIdle]
  /\ UNCHANGED <<sock, userId, userSockets, dbVars, auth, join, disc, video, sync, timers, envVars>>

\* ------------------------------------------------------------ playback
VideoKinds == {"video-play", "video-pause", "video-seek", "video-metadata"}
VideoArgs(kind) ==
  IF kind \in {"video-play", "video-seek"} THEN (0..MaxTime) \cup {NotANumber}
  ELSE IF kind = "video-metadata" THEN {1} ELSE {0}

\* a plausible slip: the host test is left out
IsHost_anyone(doc, u) == TRUE

\* room.host.toString() === socket.userId.toString()
IsHost(doc, u) == doc.host = u

\* index.js 255-258 / 267-270 / 278-281 / 290-293, up to Room.findById(socket.roomId)
VideoReq(c, kind, arg) ==
  /\ Live(c) /\ budget[c] > 0 /\ video[c].pc = "idle"
  /\ kind \in VideoKinds /\ arg \in VideoArgs(kind)
  /\ budget' = [budget EXCEPT ![c] = @ - 1]
  /\ IF roomId[c] = Null \/ userId[c] = Null
       THEN UNCHANGED video
       ELSE video' = [video EXCEPT ![c] = [VideoIdle EXCEPT !.pc = "find", !.kind = kind,
                                                          !.room = roomId[c], !.arg = arg]]
  /\ out' = <<>>
  /\ UNCHANGED <<sockVars, userSockets, dbVars, auth, join, leave, disc, sync, timers, tokens>>

\* Room.js 220-232 updatePlaybackState on the loaded copy: playbackState is
\* replaced as a whole, status follows isPlaying when that is given.
updatePlaybackState(v, doc, given, isPlaying, currentTime) ==
  LET status == IF isPlaying THEN "playing" ELSE "paused"
  IN [v EXCEPT !.ps = [isPlaying |-> IF "isPlaying" \in given THEN isPlaying
                                      ELSE doc.playbackState.isPlaying,
                       currentTime |-> IF "currentTime" \in given THEN currentTime
                                        ELSE doc.playbackState.currentTime],
               !.setStatus = ("isPlaying" \in given /\ status # doc.status),
               !.status = status]

\* index.js 258-261 / 270-272 / 281-284 / 293-296: the room is loaded; the
\* host test; the update of the loaded copy; save is issued.
VideoFind(c) ==
  /\ video[c].pc = "find"
  /\ LET v == video[c]
         doc == rooms[v.room]
     IN video' = [video EXCEPT ![c] =
          IF ~ doc.exists \/ ~ IsHost(doc, userId[c]) THEN VideoIdle
          ELSE IF v.kind = "video-play"
            THEN [updatePlaybackState(v, doc, {"isPlaying", "currentTime"}, TRUE,
                    IF v.arg # NotANumber THEN v.arg ELSE doc.playbackState.currentTime)
                  EXCEPT !.pc = "save"]
          ELSE IF v.kind = "video-pause"
            THEN [updatePlaybackState(v, doc, {"isPlaying"}, FALSE, 0) EXCEPT !.pc = "save"]
          ELSE IF v.kind = "video-seek"
            THEN [updatePlaybackState(v, doc, {"currentTime"}, FALSE,
                    IF v.arg # NotANumber THEN v.arg ELSE 0)
                  EXCEPT !.pc = "save"]
          ELSE [v EXCEPT !.pc = "save"]]
  /\ out' = <<>>
  /\ UNCHANGED <<sockVars, userSockets, dbVars, auth, join, leave, disc, sync, timers, envVars>>

\* index.js 261-262 / 272-273 / 284-285 / 296-297: the save returns; the event
\* goes to the rest of the channel of socket.roomId.  'video-play' carries the
\* currentTime that was saved, 'video-seek' the time; 'video-pause' is emitted
\* without a payload, so it carries no number.
VideoSave(c) ==
  /\ video[c].pc = "save"
  /\ LET v == video[c]
     IN /\ rooms' = [rooms EXCEPT ![v.room] =
             IF v.kind = "video-metadata" THEN [@ EXCEPT !.videoFile = v.arg]
             ELSE [@ EXCEPT !.playbackState = v.ps,
                            !.status = IF v.setStatus THEN v.status ELSE @]]
        /\ out' = <<Emit(v.kind, c, Others(c, roomId[c]), roomId[c],
                         IF v.kind = "video-play" THEN v.ps.currentTime
                         ELSE IF v.kind = "video-seek" THEN v.ps.currentTime
                         ELSE IF v.kind = "video-pause" THEN NotANumber
                         ELSE v.arg)>>
  /\ video' = [video EXCEPT ![c] = VideoIdle]
  /\ UNCHANGED <<sockVars, userSockets, isOnline, nextOid, auth, join, leave, disc, sync,
                 timers, envVars>>

\* ------------------------------------------------------------ signaling relay
RelayKinds == {"offer", "answer", "ice-candidate"}

\* index.js 58-70: the sockets the event is emitted to
emitToUserInSameRoom(to, r) ==
  {s \in getUserSocketIds(userSockets, to) : Live(s) /\ roomId[s] = r}

\* a plausible slip: the payload is forwarded as received, so a 'from' the
\* client put into it stands
Relay_trustsClient(c, ev, to, claimed) ==
  /\ Live(c) /\ budget[c] > 0
  /\ ev \in RelayKinds
  /\ budget' = [budget EXCEPT ![c] = @ - 1]
  /\ out' = IF userId[c] = Null \/ roomId[c] = Null THEN <<>>
            ELSE IF getUserSocketIds(userSockets, to) = {} THEN <<>>
            ELSE <<Emit(ev, c, emitToUserInSameRoom(to, roomId[c]), roomId[c],
                        [to |-> to, from |-> IF claimed # Null THEN claimed ELSE userId[c]])>>
  /\ UNCHANGED <<sockVars, userSockets, dbVars, handlerVars, timers, tokens>>

\* a plausible slip: only the identity is required, not the room binding
Relay_noRoomCheck(c, ev, to, claimed) ==
  /\ Live(c) /\ budget[c] > 0
  /\ ev \in RelayKinds
  /\ budget' = [budget EXCEPT ![c] = @ - 1]
  /\ out' = IF userId[c] = Null THEN <<>>
            ELSE IF getUserSocketIds(userSockets, to) = {} THEN <<>>
            ELSE <<Emit(ev, c, emitToUserInSameRoom(to, roomId[c]), roomId[c],
                        [to |-> to, from |-> userId[c]])>>
  /\ UNCHANGED <<sockVars, userSockets, dbVars, handlerVars, timers, tokens>>

\* index.js 379-407 offer / answer / ice-candidate (synchronous).  The payload
\* sent on is built from data.offer / data.answer / data.candidate and
\* socket.userId; `claimed`, a 'from' the client put into data, is not read.
Relay(c, ev, to, claimed) ==
  /\ Live(c) /\ budget[c] > 0
  /\ ev \in RelayKinds
  /\ budget' = [budget EXCEPT ![c] = @ - 1]
  /\ out' = IF userId[c] = Null \/ roomId[c] = Null THEN <<>>
            ELSE IF getUserSocketIds(userSockets, to) = {} THEN <<>>
            ELSE <<Emit(ev, c, emitToUserInSameRoom(to, roomId[c]), roomId[c],
                        [to |-> to, from |-> userId[c]])>>
  /\ UNCHANGED <<sockVars, userSockets, dbVars, handlerVars, timers, tokens>>

\* ------------------------------------------------------------ HTTP presence
\* authController.js 148-154 logout: the client of connection c, holding the
\* token of the identity it authenticated as, posts /logout;
\* User.findByIdAndUpdate(req.user.id, {isOnline: false, ...}) is applied.
logout(c) ==
  /\ budget[c] > 0 /\ userId[c] # Null
  /\ budget' = [budget EXCEPT ![c] = @ - 1]
  /\ isOnline' = [isOnline EXCEPT ![userId[c]] = FALSE]
  /\ out' = <<>>
  /\ UNCHANGED <<sockVars, userSockets, rooms, nextOid, handlerVars, timers, tokens>>

\* authController.js 196-207 updateOnlineStatus: PUT /online-status with the
\* flag the client sends.
updateOnlineStatus(c, flag) ==
  /\ budget[c] > 0 /\ userId[c] # Null
  /\ budget' = [budget EXCEPT ![c] = @ - 1]
  /\ isOnline' = [isOnline EXCEPT ![userId[c]] = flag]
  /\ out' = <<>>
  /\ UNCHANGED <<sockVars, userSockets, rooms, nextOid, handlerVars, timers, tokens>>

\* ------------------------------------------------------------ HTTP rooms
\* roomController.js 323-386 joinRoom, run alone: the room is loaded with its
\* participants unpopulated, canUserJoin, then room.addParticipant.
joinRoom(u, r) ==
  /\ rooms[r].exists
  /\ IF canUserJoin(rooms[r], u, FALSE) = "ok"
       THEN /\ rooms' = [rooms EXCEPT ![r] = addParticipant(@, u, nextOid)]
            /\ nextOid' = IF FindIdx(rooms[r].participants, u) = 0 THEN nextOid + 1
                          ELSE nextOid
       ELSE UNCHANGED <<rooms, nextOid>>
  /\ UNCHANGED <<sockVars, userSockets, isOnline, handlerVars, timers, out, envVars>>

\* roomController.js 389-418 leaveRoom, run alone: room.removeParticipant
leaveRoom(u, r) ==
  /\ rooms[r].exists
  /\ rooms' = [rooms EXCEPT ![r] = SaveRemoved(@, removeParticipant(LeaveIdle, @, u))]
  /\ UNCHANGED <<sockVars, userSockets, isOnline, nextOid, handlerVars, timers, out, envVars>>

\* ------------------------------------------------------------ room chat
ChatKinds == {"chat-message", "voice-message"}

\* index.js 302-328 chat-message / voice-message (synchronous): to the rest of
\* the bound room's channel, with user: socket.user.  A voice-message sent
\* with a callback is acknowledged through the callback.
Chat(c, kind, ack) ==
  /\ Live(c) /\ budget[c] > 0
  /\ kind \in ChatKinds
  /\ budget' = [budget EXCEPT ![c] = @ - 1]
  /\ LET dropped == roomId[c] = Null \/ userId[c] = Null
         answer == IF kind = "voice-message" /\ ack
                     THEN <<Emit("ack", c, ToSocket(c), roomId[c], ~ dropped)>>
                     ELSE <<>>
     IN out' = IF dropped THEN answer
               ELSE <<Emit(kind, c, Others(c, roomId[c]), roomId[c], userId[c])>> \o answer
  /\ UNCHANGED <<sockVars, userSockets, dbVars, handlerVars, timers, tokens>>

\* ------------------------------------------------------------ room sync
SyncKinds == {"request-room-sync", "host-room-check", "force-room-sync"}

\* index.js 410-415, 460-465, 512-517: up to the first Room.findById
SyncReq(c, kind, r) ==
  /\ Live(c) /\ budget[c] > 0 /\ sync[c].pc = "idle"
  /\ kind \in SyncKinds
  /\ budget' = [budget EXCEPT ![c] = @ - 1]
  /\ IF userId[c] = Null \/ r = Null
       THEN UNCHANGED sync
       ELSE sync' = [sync EXCEPT ![c] =
              [SyncIdle EXCEPT !.pc = IF kind = "host-room-check" THEN "check" ELSE "find",
                               !.kind = kind, !.room = r]]
  /\ out' = <<>>
  /\ UNCHANGED <<sockVars, userSockets, dbVars, auth, join, leave, disc, video, timers, tokens>>

\* index.js 465-471 host-room-check: the first read returns; only the host goes
\* on to the populated read.
SyncCheck(c) ==
  /\ sync[c].pc = "check"
  /\ LET doc == rooms[sync[c].room]
     IN sync' = [sync EXCEPT ![c] =
          IF ~ doc.exists \/ doc.host # userId[c] THEN SyncIdle
          ELSE [@ EXCEPT !.pc = "find"]]
  /\ out' = <<>>
  /\ UNCHANGED <<sockVars, userSockets, dbVars, auth, join, leave, disc, video, timers, envVars>>

\* index.js 415-427, 469-480, 517-529: the populated read returns; the active
\* participants are filtered and the count update is issued.
SyncFind(c) ==
  /\ sync[c].pc = "find"
  /\ LET doc == rooms[sync[c].room]
         active == ActiveOf(doc.participants)
     IN sync' = [sync EXCEPT ![c] =
          IF ~ doc.exists THEN SyncIdle
          ELSE [@ EXCEPT !.pc = "setCount", !.snap = active, !.n = Len(active),
                         !.host = doc.host, !.ps = doc.playbackState]]
  /\ out' = <<>>
  /\ UNCHANGED <<sockVars, userSockets, dbVars, auth, join, leave, disc, video, timers, envVars>>

\* index.js 424-453, 477-504, 526-554: the count update returns; 'room-sync'
\* (to the requester for request-room-sync, to the room's channel otherwise)
\* and 'participants-updated' to the room's channel.
SyncSetCount(c) ==
  /\ sync[c].pc = "setCount"
  /\ LET r == sync[c].room
         roomData == [participants |-> sync[c].snap, currentParticipants |-> sync[c].n,
                      host |-> sync[c].host, playbackState |-> sync[c].ps]
         data == [participants |-> sync[c].snap, currentParticipants |-> sync[c].n]
     IN /\ rooms' = [rooms EXCEPT ![r].currentParticipants = sync[c].n]
        /\ out' = <<Emit("room-sync", c,
                          IF sync[c].kind = "request-room-sync" THEN ToSocket(c) ELSE InRoom(r),
                          r, roomData),
                    Emit("participants-updated", c, InRoom(r), r, data)>>
  /\ sync' = [sync EXCEPT ![c] = SyncIdle]
  /\ UNCHANGED <<sockVars, userSockets, isOnline, nextOid, auth, join, leave, disc, video,
                 timers, envVars>>

\* ------------------------------------------------------------ specifications
\* No handler is suspended at a store operation.
Quiescent ==
  \A c \in Conns :
    /\ auth[c].pc = "idle" /\ join[c].pc = "idle" /\ leave[c].pc = "idle"
    /\ video[c].pc = "idle" /\ disc[c].pc \in {"idle", "done"}
    /\ sync[c].pc = "idle"

\* ... and no delayed emit is pending.
Settled == Quiescent /\ timers = {}

NoRooms == [r \in Rooms |-> NoRoom]

\* The state after the connections in `open` were accepted (index.js 72-76),
\* the rooms in `rms` were created, and every connection c with ident[c] # Null
\* authenticated as ident[c] (index.js 93-98), one after the other.
InitWith(open, ident, toks, rms, quota) ==
  /\ sock = [c \in Conns |-> IF c \in open THEN "open" ELSE "none"]
  /\ userId = [c \in Conns |-> IF c \in open THEN ident[c] ELSE Null]
  /\ userSockets = [u \in {ident[c] : c \in open} \ {Null} |->
                      {c \in open : ident[c] = u}]
  /\ isOnline = [u \in Users |-> \E c \in open : ident[c] = u]
  /\ rooms = rms
  /\ auth = [c \in Conns |-> AuthIdle]
  /\ join = [c \in Conns |-> JoinIdle]
  /\ leave = [c \in Conns |-> LeaveIdle]
  /\ disc = [c \in Conns |-> DiscIdle]
  /\ video = [c \in Conns |-> VideoIdle]
  /\ sync = [c \in Conns |-> SyncIdle]
  /\ timers = {}
  /\ out = <<>>
  /\ tokens = toks
  /\ budget = [c \in Conns |-> IF c \in open THEN quota[c] ELSE 0]
  /\ hist = <<>>

\* No connection has joined a room.
NoneJoined ==
  /\ roomId = [c \in Conns |-> Null]
  /\ chans = [c \in Conns |-> {}]
  /\ nextOid = 1

Nobody == [c \in Conns |-> Null]
Each(n) == [c \in Conns |-> n]
NoTokens == [c \in Conns |-> {}]


\* Concurrent joins and leaves on one room: two authenticated connections, of
\* one identity or of two; the requests of one connection may overlap.
InitRace ==
  \E u \in {"a", "b"} :
    /\ InitWith({"c1", "c2"}, [Nobody EXCEPT !["c1"] = "a", !["c2"] = u], NoTokens,
                [NoRooms EXCEPT !["r1"] = CreatedRoom("h", FALSE, MaxCap)], Each(MaxReqRace))
    /\ NoneJoined

NextRace ==
  \/ \E c \in Conns : JoinRoom(c, "r1") /\ UNCHANGED hist
  \/ \E c \in Conns : JoinFindRoom(c) /\ UNCHANGED hist
  \/ \E c \in Conns : JoinUpsert(c) /\ UNCHANGED hist
  \/ \E c \in Conns : JoinReload(c) /\ UNCHANGED hist
  \/ \E c \in Conns : JoinSetCount(c) /\ UNCHANGED hist
  \/ \E c \in Conns : LeaveRoom(c) /\ UNCHANGED hist
  \/ \E c \in Conns : LeaveFindRoom(c) /\ UNCHANGED hist
  \/ \E c \in Conns : LeaveSave(c) /\ UNCHANGED hist
  \/ \E c \in Conns : LeaveReload(c) /\ UNCHANGED hist
  \/ \E t \in timers : TimerFire(t) /\ UNCHANGED hist

SpecRace == InitRace /\ [][NextRace]_vars

\* A connection that closes while its own handlers are in flight: c1
\* authenticates, joins and closes at any point; c2, of the same identity
\* or of another, is authenticated, may join, and stays.
InitAbsorb ==
  \E u \in {"a", "b"} :
    /\ InitWith({"c1", "c2"}, [Nobody EXCEPT !["c2"] = u],
                [c \in Conns |-> IF c = "c1" THEN {"a"} ELSE {}],
                [NoRooms EXCEPT !["r1"] = CreatedRoom("h", FALSE, MaxCap)], Each(MaxReqRace))
    /\ NoneJoined

NextAbsorb ==
  \/ \E tok \in Users : Authenticate("c1", tok) /\ UNCHANGED hist
  \/ \E c \in Conns : AuthFindUser(c) /\ UNCHANGED hist
  \/ \E c \in Conns : AuthSaved(c) /\ UNCHANGED hist
  \/ \E c \in Conns : JoinRoom(c, "r1") /\ UNCHANGED hist
  \/ \E c \in Conns : JoinFindRoom(c) /\ UNCHANGED hist
  \/ \E c \in Conns : JoinUpsert(c) /\ UNCHANGED hist
  \/ \E c \in Conns : JoinReload(c) /\ UNCHANGED hist
  \/ \E c \in Conns : JoinSetCount(c) /\ UNCHANGED hist
  \/ Disconnect("c1") /\ UNCHANGED hist
  \/ \E c \in Conns : DiscOffline(c) /\ UNCHANGED hist
  \/ \E c \in Conns : DiscFindRoom(c) /\ UNCHANGED hist
  \/ \E c \in Conns : DiscSave(c) /\ UNCHANGED hist
  \/ \E c \in Conns : DiscReload(c) /\ UNCHANGED hist
  \/ \E t \in timers : TimerFire(t) /\ UNCHANGED hist

SpecAbsorb == InitAbsorb /\ [][NextAbsorb]_vars

\* Presence: three connections authenticate and close, in any interleaving.
\* c1 and c2 hold a token of a; c3 holds tokens of a and b and unusable ones.
AllTokens == Users \cup {NoToken, BadToken, GoneToken}

InitPresence ==
  /\ InitWith(Conns, Nobody,
              [c \in Conns |-> IF c = "c3" THEN {"a", "b", NoToken, BadToken, GoneToken}
                               ELSE {"a"}],
              NoRooms,
              [c \in Conns |-> IF c = "c3" THEN MaxReqPresence ELSE MaxReqPresence - 1])
  /\ NoneJoined

NextPresence ==
  \/ \E c \in Conns, tok \in AllTokens : Authenticate(c, tok) /\ UNCHANGED hist
  \/ \E c \in Conns : AuthFindUser(c) /\ UNCHANGED hist
  \/ \E c \in Conns : AuthSaved(c) /\ UNCHANGED hist
  \/ \E c \in Conns : Disconnect(c) /\ UNCHANGED hist
  \/ \E c \in Conns : DiscOffline(c) /\ UNCHANGED hist

SpecPresence == InitPresence /\ [][NextPresence]_vars

\* The stored room after a join-room of identity u that ran alone
\* (index.js 134-177): the participant upsert, then the count.
JoinedBy(doc, u, oid) ==
  LET parts == IF FindIdx(doc.participants, u) # 0
                 THEN SetActiveFirst(doc.participants, u)
                 ELSE AddToSet(doc.participants, Participant(u, oid))
  IN [doc EXCEPT !.participants = parts, !.currentParticipants = Len(ActiveOf(parts))]

\* The observer records, once per connection and outcome, that a playback
\* request of the connection reached the host test and how the test went.
Tested(c) ==
  [conn |-> c, op |-> "video",
   res |-> IF video'[c].pc = "save" THEN "accepted" ELSE "ignored"]
Noted(h, e) == IF \E i \in 1..Len(h) : h[i] = e THEN h ELSE Append(h, e)

\* Playback: the host's connection c1 has joined r1; a second connection, of
\* the host or of another identity, has joined r1 after it or has not joined;
\* the delayed emits of the joins have run.  Both send playback requests
\* concurrently.
InitPlayback ==
  \E u \in {"h", "a"}, at \in {"r1", Null} :
    /\ InitWith({"c1", "c2"}, [Nobody EXCEPT !["c1"] = "h", !["c2"] = u], NoTokens,
                [NoRooms EXCEPT !["r1"] =
                   IF at = Null THEN JoinedBy(CreatedRoom("h", FALSE, MaxCap), "h", 1)
                   ELSE JoinedBy(JoinedBy(CreatedRoom("h", FALSE, MaxCap), "h", 1), u, 1)],
                Each(MaxReqPlay))
    /\ roomId = [Nobody EXCEPT !["c1"] = "r1", !["c2"] = at]
    /\ chans = [c \in Conns |-> IF c = "c1" \/ (c = "c2" /\ at # Null) THEN {"r1"} ELSE {}]
    /\ nextOid = Len(rooms["r1"].participants)

NextPlayback ==
  \/ \E c \in Conns, k \in VideoKinds, x \in (-1)..MaxTime :
        VideoReq(c, k, x) /\ UNCHANGED hist
  \/ \E c \in Conns : VideoFind(c) /\ hist' = Noted(hist, Tested(c))
  \/ \E c \in Conns : VideoSave(c) /\ UNCHANGED hist

SpecPlayback == InitPlayback /\ [][NextPlayback]_vars

\* One request at a time: a client sends its next request, or closes, only
\* when no handler is in flight and the delayed emits of the joins have run.
\* Two authenticated connections, of one identity or of two, and two rooms.
InitSeq ==
  \E u \in {"a", "b"} :
    /\ InitWith({"c1", "c2"}, [Nobody EXCEPT !["c1"] = "a", !["c2"] = u], NoTokens,
                [r \in Rooms |-> CreatedRoom("h", FALSE, MaxCap)], Each(MaxReq))
    /\ NoneJoined

NextSeq ==
  \/ \E c \in Conns, r \in Rooms : Settled /\ JoinRoom(c, r) /\ UNCHANGED hist
  \/ \E c \in Conns : JoinFindRoom(c) /\ UNCHANGED hist
  \/ \E c \in Conns : JoinUpsert(c) /\ UNCHANGED hist
  \/ \E c \in Conns : JoinReload(c) /\ UNCHANGED hist
  \/ \E c \in Conns : JoinSetCount(c) /\ UNCHANGED hist
  \/ \E c \in Conns : Settled /\ LeaveRoom(c) /\ UNCHANGED hist
  \/ \E c \in Conns : LeaveFindRoom(c) /\ UNCHANGED hist
  \/ \E c \in Conns : LeaveSave(c) /\ UNCHANGED hist
  \/ \E c \in Conns : LeaveReload(c) /\ UNCHANGED hist
  \/ \E c \in Conns : Settled /\ Disconnect(c) /\ UNCHANGED hist
  \/ \E c \in Conns : DiscOffline(c) /\ UNCHANGED hist
  \/ \E c \in Conns : DiscFindRoom(c) /\ UNCHANGED hist
  \/ \E c \in Conns : DiscSave(c) /\ UNCHANGED hist
  \/ \E c \in Conns : DiscReload(c) /\ UNCHANGED hist
  \/ \E t \in timers : TimerFire(t) /\ UNCHANGED hist

SpecSeq == InitSeq /\ [][NextSeq]_vars

\* Signaling: c1 is authenticated as h; c2 is authenticated as a and also
\* holds a token of b.  One request at a time, two rooms.
InitRelay ==
  /\ InitWith({"c1", "c2"}, [c \in Conns |-> IF c = "c1" THEN "h" ELSE "a"],
              [c \in Conns |-> IF c = "c2" THEN {"b"} ELSE {}],
              [r \in Rooms |-> CreatedRoom("h", FALSE, MaxCap)], Each(MaxReqRelay))
  /\ NoneJoined

NextRelay ==
  \/ \E c \in Conns, tok \in Users : Settled /\ Authenticate(c, tok) /\ UNCHANGED hist
  \/ \E c \in Conns : AuthFindUser(c) /\ UNCHANGED hist
  \/ \E c \in Conns : AuthSaved(c) /\ UNCHANGED hist
  \/ \E c \in Conns, r \in Rooms : Settled /\ JoinRoom(c, r) /\ UNCHANGED hist
  \/ \E c \in Conns : JoinFindRoom(c) /\ UNCHANGED hist
  \/ \E c \in Conns : JoinUpsert(c) /\ UNCHANGED hist
  \/ \E c \in Conns : JoinReload(c) /\ UNCHANGED hist
  \/ \E c \in Conns : JoinSetCount(c) /\ UNCHANGED hist
  \/ \E c \in Conns : Settled /\ LeaveRoom(c) /\ UNCHANGED hist
  \/ \E c \in Conns : LeaveFindRoom(c) /\ UNCHANGED hist
  \/ \E c \in Conns : LeaveSave(c) /\ UNCHANGED hist
  \/ \E c \in Conns : LeaveReload(c) /\ UNCHANGED hist
  \/ \E c \in Conns : Settled /\ Disconnect(c) /\ UNCHANGED hist
  \/ \E c \in Conns : DiscOffline(c) /\ UNCHANGED hist
  \/ \E c \in Conns : DiscFindRoom(c) /\ UNCHANGED hist
  \/ \E c \in Conns : DiscSave(c) /\ UNCHANGED hist
  \/ \E c \in Conns : DiscReload(c) /\ UNCHANGED hist
  \/ \E c \in Conns, ev \in RelayKinds, to \in Users :
        Settled /\ Relay(c, ev, to, Null) /\ UNCHANGED hist
  \/ \E t \in timers : TimerFire(t) /\ UNCHANGED hist

SpecRelay == InitRelay /\ [][NextRelay]_vars

\* The capacity scenario's setting: the connections of H, A and B are
\* authenticated and send join-room and leave-room one request at a time.
\* The observer hist records the outcome of every completed request.
Observed ==
  LET replies == SelectSeq(out', LAMBDA m : m.ev \in {"room-joined", "error"})
      left == {c \in Conns : leave[c].pc = "reload" /\ leave'[c].pc = "idle"}
  IN [i \in 1..Len(replies) |->
        [conn |-> replies[i].from, op |-> "join-room",
         res |-> IF replies[i].ev = "error" THEN replies[i].data ELSE "room-joined"]]
     \o IF left = {} THEN <<>>
        ELSE <<[conn |-> CHOOSE c \in left : TRUE, op |-> "leave-room", res |-> "left"]>>

InitCapacity ==
  \E max \in 2..MaxCap :
    /\ InitWith(Conns, [c \in Conns |-> IF c = "c1" THEN "h" ELSE IF c = "c2" THEN "a" ELSE "b"],
                NoTokens, [NoRooms EXCEPT !["r1"] = CreatedRoom("h", FALSE, max)], Each(MaxReqCap))
    /\ NoneJoined

NextCapacity ==
  \/ \E c \in Conns : Settled /\ JoinRoom(c, "r1") /\ hist' = hist \o Observed
  \/ \E c \in Conns : JoinFindRoom(c) /\ hist' = hist \o Observed
  \/ \E c \in Conns : JoinUpsert(c) /\ hist' = hist \o Observed
  \/ \E c \in Conns : JoinReload(c) /\ hist' = hist \o Observed
  \/ \E c \in Conns : JoinSetCount(c) /\ hist' = hist \o Observed
  \/ \E c \in Conns : Settled /\ LeaveRoom(c) /\ hist' = hist \o Observed
  \/ \E c \in Conns : LeaveFindRoom(c) /\ hist' = hist \o Observed
  \/ \E c \in Conns : LeaveSave(c) /\ hist' = hist \o Observed
  \/ \E c \in Conns : LeaveReload(c) /\ hist' = hist \o Observed
  \/ \E t \in timers : TimerFire(t) /\ hist' = hist \o Observed

SpecCapacity == InitCapacity /\ [][NextCapacity]_vars

\* Concurrent joins of two identities: c1 (a) and c2 (b) are authenticated and
\* send join-room for r1; the handlers and the delayed emits interleave freely.
InitJoins ==
  /\ InitWith({"c1", "c2"}, [Nobody EXCEPT !["c1"] = "a", !["c2"] = "b"], NoTokens,
              [NoRooms EXCEPT !["r1"] = CreatedRoom("h", FALSE, MaxCap)], Each(MaxReqJoin))
  /\ NoneJoined

NextJoins ==
  \/ \E c \in Conns : JoinRoom(c, "r1") /\ UNCHANGED hist
  \/ \E c \in Conns : JoinFindRoom(c) /\ UNCHANGED hist
  \/ \E c \in Conns : JoinUpsert(c) /\ UNCHANGED hist
  \/ \E c \in Conns : JoinReload(c) /\ UNCHANGED hist
  \/ \E c \in Conns : JoinSetCount(c) /\ UNCHANGED hist
  \/ \E t \in timers : TimerFire(t) /\ UNCHANGED hist

SpecJoins == InitJoins /\ [][NextJoins]_vars

\* Two tabs of the host: c1 and c2 are both authenticated as h and have joined
\* r1; each sends playback requests, and the handlers interleave freely.  The
\* observer records every request sent, with its argument.
Sent(c, kind, arg) == [conn |-> c, op |-> kind, res |-> arg]

InitTwoHosts ==
  /\ InitWith({"c1", "c2"}, [Nobody EXCEPT !["c1"] = "h", !["c2"] = "h"], NoTokens,
              [NoRooms EXCEPT !["r1"] = JoinedBy(CreatedRoom("h", FALSE, MaxCap), "h", 1)],
              Each(MaxReqOnce))
  /\ roomId = [Nobody EXCEPT !["c1"] = "r1", !["c2"] = "r1"]
  /\ chans = [c \in Conns |-> IF c \in {"c1", "c2"} THEN {"r1"} ELSE {}]
  /\ nextOid = 1

NextTwoHosts ==
  \/ \E c \in Conns, k \in VideoKinds, x \in (-1)..MaxTime :
        VideoReq(c, k, x) /\ hist' = Append(hist, Sent(c, k, x))
  \/ \E c \in Conns : VideoFind(c) /\ UNCHANGED hist
  \/ \E c \in Conns : VideoSave(c) /\ UNCHANGED hist

SpecTwoHosts == InitTwoHosts /\ [][NextTwoHosts]_vars

\* One connection's own stream: c1 (a) and c2 (b) are authenticated and send
\* join-room for r1 and leave-room without waiting for the previous handler
\* to finish.  The observer records every request sent.
InitOrder ==
  /\ InitWith({"c1", "c2"}, [Nobody EXCEPT !["c1"] = "a", !["c2"] = "b"], NoTokens,
              [NoRooms EXCEPT !["r1"] = CreatedRoom("h", FALSE, MaxCap)], Each(MaxReqOrder))
  /\ NoneJoined

NextOrder ==
  \/ \E c \in Conns : JoinRoom(c, "r1") /\ hist' = Append(hist, Sent(c, "join-room", "r1"))
  \/ \E c \in Conns : JoinFindRoom(c) /\ UNCHANGED hist
  \/ \E c \in Conns : JoinUpsert(c) /\ UNCHANGED hist
  \/ \E c \in Conns : JoinReload(c) /\ UNCHANGED hist
  \/ \E c \in Conns : JoinSetCount(c) /\ UNCHANGED hist
  \/ \E c \in Conns : LeaveRoom(c) /\ hist' = Append(hist, Sent(c, "leave-room", Null))
  \/ \E c \in Conns : LeaveFindRoom(c) /\ UNCHANGED hist
  \/ \E c \in Conns : LeaveSave(c) /\ UNCHANGED hist
  \/ \E c \in Conns : LeaveReload(c) /\ UNCHANGED hist
  \/ \E t \in timers : TimerFire(t) /\ UNCHANGED hist

SpecOrder == InitOrder /\ [][NextOrder]_vars

\* The store may fail while a closing connection is marked offline: c1 (a) and
\* c2 (b) join r1 and close once their join has finished.  The observer
\* records the connections whose offline write failed.
InitFailure ==
  /\ InitWith({"c1", "c2"}, [Nobody EXCEPT !["c1"] = "a", !["c2"] = "b"], NoTokens,
              [NoRooms EXCEPT !["r1"] = CreatedRoom("h", FALSE, MaxCap)], Each(MaxReqFail))
  /\ NoneJoined

NextFailure ==
  \/ \E c \in Conns : JoinRoom(c, "r1") /\ UNCHANGED hist
  \/ \E c \in Conns : JoinFindRoom(c) /\ UNCHANGED hist
  \/ \E c \in Conns : JoinUpsert(c) /\ UNCHANGED hist
  \/ \E c \in Conns : JoinReload(c) /\ UNCHANGED hist
  \/ \E c \in Conns : JoinSetCount(c) /\ UNCHANGED hist
  \/ \E c \in Conns : join[c].pc = "idle" /\ Disconnect(c) /\ UNCHANGED hist
  \/ \E c \in Conns : DiscOffline(c) /\ UNCHANGED hist
  \/ \E c \in Conns : DiscOfflineFails(c) /\ hist' = Append(hist, Sent(c, "disconnect", "failed"))
  \/ \E c \in Conns : DiscFindRoom(c) /\ UNCHANGED hist
  \/ \E c \in Conns : DiscSave(c) /\ UNCHANGED hist
  \/ \E c \in Conns : DiscReload(c) /\ UNCHANGED hist
  \/ \E t \in timers : TimerFire(t) /\ UNCHANGED hist

SpecFailure == InitFailure /\ [][NextFailure]_vars

\* Admission: c1 (the host h) and c2 (a) are authenticated, c3 is not.  r1 is
\* public, has a password and MaxSeats places; r2 is private.  A join-room
\* names a room or carries no roomId, and never carries a password.  The
\* requests run one after the other; the observer records the reasons of the
\* refusals seen.
WithPassword(doc, pw) == [doc EXCEPT !.password = pw]

InitAdmission ==
  /\ InitWith(Conns, [Nobody EXCEPT !["c1"] = "h", !["c2"] = "a"], NoTokens,
              [NoRooms EXCEPT !["r1"] = WithPassword(CreatedRoom("h", FALSE, MaxSeats), "pw"),
                              !["r2"] = CreatedRoom("h", TRUE, MaxCap)],
              [c \in Conns |-> IF c = "c2" THEN MaxReqAdmit ELSE MaxReqAdmit - 2])
  /\ NoneJoined

NextAdmission ==
  \/ \E c \in Conns, r \in Rooms \cup {Null} :
       /\ Settled /\ JoinRoom(c, r)
       /\ hist' = IF userId[c] = Null THEN Noted(hist, "Not authenticated") ELSE hist
  \/ \E c \in Conns :
       /\ JoinFindRoom(c)
       /\ hist' = IF join'[c].pc = "idle" THEN Noted(hist, out'[1].data) ELSE hist
  \/ \E c \in Conns : JoinUpsert(c) /\ UNCHANGED hist
  \/ \E c \in Conns : JoinReload(c) /\ UNCHANGED hist
  \/ \E c \in Conns : JoinSetCount(c) /\ UNCHANGED hist
  \/ \E t \in timers : TimerFire(t) /\ UNCHANGED hist

SpecAdmission == InitAdmission /\ [][NextAdmission]_vars

\* The observer records that a playback request reached the host test, whether
\* the room's host had an active record then, and how the test went.
TestedAt(c) ==
  [conn |-> c,
   op |-> IF \E i \in 1..Len(rooms[video[c].room].participants) :
               /\ rooms[video[c].room].participants[i].user = rooms[video[c].room].host
               /\ rooms[video[c].room].participants[i].isActive
            THEN "host present" ELSE "host away",
   res |-> IF video'[c].pc = "save" THEN "accepted" ELSE "ignored"]

\* The host and a guest: c1 is authenticated as h, the host of r1, and c2 as
\* a.  Either may join, leave, close, and send playback and sync requests, one
\* request at a time.
InitHost ==
  /\ InitWith({"c1", "c2"}, [Nobody EXCEPT !["c1"] = "h", !["c2"] = "a"], NoTokens,
              [NoRooms EXCEPT !["r1"] = CreatedRoom("h", FALSE, MaxCap)], Each(MaxReqHost))
  /\ NoneJoined

NextHost ==
  \/ \E c \in Conns : Settled /\ JoinRoom(c, "r1") /\ UNCHANGED hist
  \/ \E c \in Conns : JoinFindRoom(c) /\ UNCHANGED hist
  \/ \E c \in Conns : JoinUpsert(c) /\ UNCHANGED hist
  \/ \E c \in Conns : JoinReload(c) /\ UNCHANGED hist
  \/ \E c \in Conns : JoinSetCount(c) /\ UNCHANGED hist
  \/ \E t \in timers : TimerFire(t) /\ UNCHANGED hist
  \/ \E c \in Conns : Settled /\ LeaveRoom(c) /\ UNCHANGED hist
  \/ \E c \in Conns : LeaveFindRoom(c) /\ UNCHANGED hist
  \/ \E c \in Conns : LeaveSave(c) /\ UNCHANGED hist
  \/ \E c \in Conns : LeaveReload(c) /\ UNCHANGED hist
  \/ \E c \in Conns : Settled /\ Disconnect(c) /\ UNCHANGED hist
  \/ \E c \in Conns : DiscOffline(c) /\ UNCHANGED hist
  \/ \E c \in Conns : DiscFindRoom(c) /\ UNCHANGED hist
  \/ \E c \in Conns : DiscSave(c) /\ UNCHANGED hist
  \/ \E c \in Conns : DiscReload(c) /\ UNCHANGED hist
  \/ \E c \in Conns, k \in VideoKinds : \E x \in VideoArgs(k) :
       Settled /\ VideoReq(c, k, x) /\ UNCHANGED hist
  \/ \E c \in Conns : VideoFind(c) /\ hist' = Noted(hist, TestedAt(c))
  \/ \E c \in Conns : VideoSave(c) /\ UNCHANGED hist
  \/ \E c \in Conns, k \in SyncKinds : Settled /\ SyncReq(c, k, "r1") /\ UNCHANGED hist
  \/ \E c \in Conns : SyncCheck(c) /\ UNCHANGED hist
  \/ \E c \in Conns : SyncFind(c) /\ UNCHANGED hist
  \/ \E c \in Conns : SyncSetCount(c) /\ UNCHANGED hist

SpecHost == InitHost /\ [][NextHost]_vars

\* Presence with the HTTP endpoints: c1 and c2 are authenticated as a, c3
\* holds a token of b.  The connections authenticate and close, and their
\* clients call /logout and /online-status, in any interleaving.
InitSignOut ==
  /\ InitWith(Conns, [Nobody EXCEPT !["c1"] = "a", !["c2"] = "a"],
              [c \in Conns |-> IF c = "c3" THEN {"b"} ELSE {}],
              NoRooms, Each(MaxReqSignOut))
  /\ NoneJoined

NextSignOut ==
  \/ \E c \in Conns, tok \in Users : Authenticate(c, tok) /\ UNCHANGED hist
  \/ \E c \in Conns : AuthFindUser(c) /\ UNCHANGED hist
  \/ \E c \in Conns : AuthSaved(c) /\ UNCHANGED hist
  \/ \E c \in Conns : Disconnect(c) /\ UNCHANGED hist
  \/ \E c \in Conns : DiscOffline(c) /\ UNCHANGED hist
  \/ \E c \in Conns : logout(c) /\ UNCHANGED hist
  \/ \E c \in Conns, flag \in BOOLEAN : updateOnlineStatus(c, flag) /\ UNCHANGED hist

SpecSignOut == InitSignOut /\ [][NextSignOut]_vars

\* Signaling with an unauthenticated connection: c1 is authenticated as h, c2
\* as a, c3 is connected and not authenticated.  One request at a time; a
\* relay request may carry a 'from' of the client's choosing.  The observer
\* holds the last request sent.
InitSignal ==
  /\ InitWith(Conns, [Nobody EXCEPT !["c1"] = "h", !["c2"] = "a"], NoTokens,
              [r \in Rooms |-> CreatedRoom("h", FALSE, MaxCap)], Each(MaxReqSignal))
  /\ NoneJoined

NextSignal ==
  \/ \E c \in Conns, r \in Rooms :
       Settled /\ JoinRoom(c, r) /\ hist' = <<Sent(c, "join-room", r)>>
  \/ \E c \in Conns : JoinFindRoom(c) /\ UNCHANGED hist
  \/ \E c \in Conns : JoinUpsert(c) /\ UNCHANGED hist
  \/ \E c \in Conns : JoinReload(c) /\ UNCHANGED hist
  \/ \E c \in Conns : JoinSetCount(c) /\ UNCHANGED hist
  \/ \E t \in timers : TimerFire(t) /\ UNCHANGED hist
  \/ \E c \in Conns, ev \in RelayKinds, to \in Users, claimed \in Users \cup {Null} :
       Settled /\ Relay(c, ev, to, claimed) /\ hist' = <<Sent(c, ev, claimed)>>

SpecSignal == InitSignal /\ [][NextSignal]_vars

\* Room chat: c1 (h), c2 (a) and c3 (b) are authenticated; they join rooms and
\* send chat and voice messages, one request at a time.  The observer holds
\* the last request sent.
InitChat ==
  /\ InitWith(Conns, [Nobody EXCEPT !["c1"] = "h", !["c2"] = "a", !["c3"] = "b"], NoTokens,
              [r \in Rooms |-> CreatedRoom("h", FALSE, MaxCap)], Each(MaxReqChat))
  /\ NoneJoined

NextChat ==
  \/ \E c \in Conns, r \in Rooms :
       Settled /\ JoinRoom(c, r) /\ hist' = <<Sent(c, "join-room", r)>>
  \/ \E c \in Conns : JoinFindRoom(c) /\ UNCHANGED hist
  \/ \E c \in Conns : JoinUpsert(c) /\ UNCHANGED hist
  \/ \E c \in Conns : JoinReload(c) /\ UNCHANGED hist
  \/ \E c \in Conns : JoinSetCount(c) /\ UNCHANGED hist
  \/ \E t \in timers : TimerFire(t) /\ UNCHANGED hist
  \/ \E c \in Conns, k \in ChatKinds, ack \in BOOLEAN :
       Settled /\ Chat(c, k, ack) /\ hist' = <<Sent(c, k, ack)>>

SpecChat == InitChat /\ [][NextChat]_vars

\* Authentication with a store that may fail: c1 and c2 are connected and not
\* authenticated; c1 holds a token of a and unusable ones, c2 a token of a.
\* One request at a time.  The observer holds the last authenticate request
\* with the identity binding and the registry it found.
Before(c) == [conn |-> c, op |-> "authenticate", res |-> <<userId[c], userSockets>>]

InitAuthFail ==
  /\ InitWith({"c1", "c2"}, Nobody,
              [c \in Conns |-> IF c = "c1" THEN {"a", NoToken, BadToken, GoneToken}
                               ELSE {"a"}],
              NoRooms, Each(MaxReqAuth))
  /\ NoneJoined

NextAuthFail ==
  \/ \E c \in Conns, tok \in AllTokens :
       Settled /\ Authenticate(c, tok) /\ hist' = <<Before(c)>>
  \/ \E c \in Conns : AuthFindUser(c) /\ UNCHANGED hist
  \/ \E c \in Conns : AuthSaved(c) /\ UNCHANGED hist
  \/ \E c \in Conns : AuthSaveFails(c) /\ UNCHANGED hist
  \/ \E c \in Conns : Settled /\ Disconnect(c) /\ hist' = <<>>
  \/ \E c \in Conns : DiscOffline(c) /\ UNCHANGED hist

SpecAuthFail == InitAuthFail /\ [][NextAuthFail]_vars

\* The registry functions on their own: from the empty Map the process starts
\* with, any of the three is called with any identity and any socket id.  The
\* observer holds the last call: its arguments, the Map before it and, for
\* getUserSocketIds, what it returned.
Called(f, u, c, res) == [op |-> f, user |-> u, conn |-> c, before |-> userSockets, res |-> res]

CallAdd(u, c) ==
  /\ userSockets' = addUserSocket(userSockets, u, c)
  /\ hist' = <<Called("addUserSocket", u, c, {})>>
  /\ UNCHANGED <<sockVars, dbVars, handlerVars, timers, out, envVars>>

CallRemove(u, c) ==
  /\ userSockets' = removeUserSocket(userSockets, u, c)
  /\ hist' = <<Called("removeUserSocket", u, c, {})>>
  /\ UNCHANGED <<sockVars, dbVars, handlerVars, timers, out, envVars>>

CallGet(u) ==
  /\ hist' = <<Called("getUserSocketIds", u, Null, getUserSocketIds(userSockets, u))>>
  /\ UNCHANGED <<sockVars, userSockets, dbVars, handlerVars, timers, out, envVars>>

InitRegistry ==
  /\ InitWith({}, Nobody, NoTokens, NoRooms, Each(0))
  /\ NoneJoined

NextRegistry ==
  \/ \E u \in Users, c \in Conns : CallAdd(u, c)
  \/ \E u \in Users, c \in Conns : CallRemove(u, c)
  \/ \E u \in Users : CallGet(u)

SpecRegistry == InitRegistry /\ [][NextRegistry]_vars

\* The HTTP room endpoints, one request at a time: any identity joins and
\* leaves r1 and r2, which h created with MaxCap and MaxSeats places.  The
\* observer holds the last request and whether it was admitted.
InitHttp ==
  /\ InitWith({}, Nobody, NoTokens,
              [NoRooms EXCEPT !["r1"] = CreatedRoom("h", FALSE, MaxCap),
                              !["r2"] = CreatedRoom("h", FALSE, MaxSeats)], Each(0))
  /\ NoneJoined

NextHttp ==
  \/ \E u \in Users, r \in Rooms :
       /\ joinRoom(u, r)
       /\ hist' = <<[op |-> "joinRoom", user |-> u, room |-> r,
                     res |-> canUserJoin(rooms[r], u, FALSE)]>>
  \/ \E u \in Users, r \in Rooms :
       /\ leaveRoom(u, r)
       /\ hist' = <<[op |-> "leaveRoom", user |-> u, room |-> r, res |-> "ok"]>>

SpecHttp == InitHttp /\ [][NextHttp]_vars

\* One free place: r1 has MaxSeats places and the host holds one.  c1 (a) and
\* c2 (b) are authenticated and send join-room for r1; the handlers and the
\* delayed emits interleave freely.
InitSlot ==
  /\ InitWith({"c1", "c2"}, [Nobody EXCEPT !["c1"] = "a", !["c2"] = "b"], NoTokens,
              [NoRooms EXCEPT !["r1"] = CreatedRoom("h", FALSE, MaxSeats)], Each(MaxReqJoin))
  /\ NoneJoined

NextSlot ==
  \/ \E c \in Conns : JoinRoom(c, "r1") /\ UNCHANGED hist
  \/ \E c \in Conns : JoinFindRoom(c) /\ UNCHANGED hist
  \/ \E c \in Conns : JoinUpsert(c) /\ UNCHANGED hist
  \/ \E c \in Conns : JoinReload(c) /\ UNCHANGED hist
  \/ \E c \in Conns : JoinSetCount(c) /\ UNCHANGED hist
  \/ \E t \in timers : TimerFire(t) /\ UNCHANGED hist

SpecSlot == InitSlot /\ [][NextSlot]_vars

\* Joins against a store that may fail: c1 is authenticated as a, c2 is not
\* authenticated; r1 is open, r2 is private; a request names r1, r2, or no
\* room.  Every store operation of the handler returns or rejects.  The
\* observer holds, per connection, the room binding and the channels found by
\* its last join-room request.
JoinBefore(c) == [conn |-> c, op |-> "join-room", res |-> <<roomId[c], chans[c]>>]

NoteJoin(c) == SelectSeq(hist, LAMBDA e : e.conn # c) \o <<JoinBefore(c)>>

InitJoinFail ==
  /\ InitWith({"c1", "c2"}, [Nobody EXCEPT !["c1"] = "a"], NoTokens,
              [r \in Rooms |-> CreatedRoom("h", r = "r2", MaxCap)], Each(MaxReqJoinFail))
  /\ NoneJoined

NextJoinFail ==
  \/ \E c \in Conns, r \in Rooms \cup {Null} : JoinRoom(c, r) /\ hist' = NoteJoin(c)
  \/ \E c \in Conns : JoinFindRoom(c) /\ UNCHANGED hist
  \/ \E c \in Conns : JoinFindRoomFails(c) /\ UNCHANGED hist
  \/ \E c \in Conns : JoinUpsert(c) /\ UNCHANGED hist
  \/ \E c \in Conns : JoinUpsertFails(c) /\ UNCHANGED hist
  \/ \E c \in Conns : JoinReload(c) /\ UNCHANGED hist
  \/ \E c \in Conns : JoinReloadFails(c) /\ UNCHANGED hist
  \/ \E c \in Conns : JoinSetCount(c) /\ UNCHANGED hist
  \/ \E c \in Conns : JoinSetCountFails(c) /\ UNCHANGED hist
  \/ \E t \in timers : TimerFire(t) /\ UNCHANGED hist

SpecJoinFail == InitJoinFail /\ [][NextJoinFail]_vars

\* Delayed emits against leaves: c2 (b) has joined r1, c1 (a) is authenticated;
\* both send join-room and leave-room for r1, and the 200 ms / 500 ms callbacks
\* of a join run whenever they are due, before or after a later handler.  The
\* observer holds, for each connection, who was sent the 'user-left' and
\* 'peer-left' of its leave since its last completed join.
ToldLeft(c) == [conn |-> c, op |-> "peer-left", res |-> Others(c, roomId[c])]

InitDelayed ==
  /\ InitWith({"c1", "c2"}, [Nobody EXCEPT !["c1"] = "a", !["c2"] = "b"], NoTokens,
              [NoRooms EXCEPT !["r1"] = JoinedBy(CreatedRoom("h", FALSE, MaxCap), "b", 1)],
              Each(MaxReqDelay))
  /\ roomId = [Nobody EXCEPT !["c2"] = "r1"]
  /\ chans = [c \in Conns |-> IF c = "c2" THEN {"r1"} ELSE {}]
  /\ nextOid = 2

NextDelayed ==
  \/ \E c \in Conns : JoinRoom(c, "r1") /\ UNCHANGED hist
  \/ \E c \in Conns : JoinFindRoom(c) /\ UNCHANGED hist
  \/ \E c \in Conns : JoinUpsert(c) /\ UNCHANGED hist
  \/ \E c \in Conns : JoinReload(c) /\ UNCHANGED hist
  \/ \E c \in Conns : JoinSetCount(c) /\ hist' = SelectSeq(hist, LAMBDA e : e.conn # c)
  \/ \E c \in Conns : LeaveRoom(c) /\ UNCHANGED hist
  \/ \E c \in Conns : LeaveFindRoom(c) /\ UNCHANGED hist
  \/ \E c \in Conns : LeaveSave(c) /\ UNCHANGED hist
  \/ \E c \in Conns : LeaveReload(c)
        /\ hist' = IF out' = <<>> THEN hist
                   ELSE SelectSeq(hist, LAMBDA e : e.conn # c) \o <<ToldLeft(c)>>
  \/ \E t \in timers : TimerFire(t) /\ UNCHANGED hist

SpecDelayed == InitDelayed /\ [][NextDelayed]_vars

\* ------------------------------------------------------------ properties
RosterOf(r) == rooms[r].participants
HasActive(r, u) == \E i \in 1..Len(RosterOf(r)) : RosterOf(r)[i].user = u /\ RosterOf(r)[i].isActive
NoJoinLeaveInFlight ==
  \A c \in Conns : join[c].pc = "idle" /\ leave[c].pc = "idle" /\ disc[c].pc \in {"idle", "done"}

\* C1 (SpecRace): when two or more join-room handlers were run by connections
\* of one identity for room r1 and all handlers have finished, the roster of
\* r1 holds exactly one record of that identity, and that record is active.
C1_OneActiveRecord ==
  \A u \in Users :
    LET mine == {c \in Conns : Live(c) /\ userId[c] = u /\ roomId[c] = "r1"}
        recs == RecordsOf(RosterOf("r1"), u)
    IN (Cardinality(mine) >= 2 /\ NoJoinLeaveInFlight)
         => (Len(recs) = 1 /\ recs[1].isActive)

\* C2 (SpecRace): whenever no join-room, leave-room or disconnect handler is in
\* flight, the stored currentParticipants of a room equals the number of its
\* participant records with isActive = true.
C2_CountMatchesRoster ==
  NoJoinLeaveInFlight =>
    \A r \in Rooms :
      rooms[r].exists => rooms[r].currentParticipants = Len(ActiveOf(RosterOf(r)))

\* C3 (SpecSeq): identity X has two connections joined to room R and one of
\* them closes; once its disconnect handler has finished, and while the other
\* connection is still bound to R, X's record in R is active and X is online.
C3_OtherTabKeepsMembership ==
  \A c, d \in Conns :
    (/\ Quiescent
     /\ sock[c] = "closed" /\ disc[c].pc = "done"
     /\ userId[c] # Null /\ roomId[c] # Null
     /\ Live(d) /\ userId[d] = userId[c] /\ roomId[d] = roomId[c])
      => (isOnline[userId[c]] /\ HasActive(roomId[c], userId[c]))

PlaybackOf(doc) == <<doc.playbackState, doc.status, doc.videoFile>>
\* the connection's bound identity is the host of the room it is bound to
BoundAsHost(c) ==
  roomId[c] # Null /\ rooms[roomId[c]].exists /\ rooms[roomId[c]].host = userId[c]

\* C4 (SpecPlayback): no step of a video-play, video-pause, video-seek or
\* video-metadata handler of a connection whose bound identity is not the
\* host of its room changes a room's stored playbackState, status or
\* videoFile or emits an event; every playback event emitted, and every change
\* of these stored fields, comes from a connection bound as the host.
C4_NonHostPlaybackIgnored ==
  [][/\ \A c \in Conns :
          (video'[c] # video[c] /\ ~ BoundAsHost(c))
            => (out' = <<>> /\ \A r \in Rooms : PlaybackOf(rooms'[r]) = PlaybackOf(rooms[r]))
     /\ \A i \in 1..Len(out') : out'[i].ev \in VideoKinds => BoundAsHost(out'[i].from)
     /\ \A r \in Rooms :
          PlaybackOf(rooms'[r]) # PlaybackOf(rooms[r])
            => \E c \in Conns : video'[c] # video[c] /\ BoundAsHost(c)]_vars

\* C4 witness: the playback request of c2, bound to r1 as the non-host a,
\* reached the host test and was dropped, while the host's request was applied.
C4_NonHostTested ==
  /\ userId["c2"] = "a" /\ roomId["c2"] = "r1"
  /\ \E i \in 1..Len(hist) : hist[i].conn = "c2" /\ hist[i].res = "ignored"
  /\ \E i \in 1..Len(hist) : hist[i].conn = "c1" /\ hist[i].res = "accepted"
  /\ rooms["r1"].status = "playing"

\* C5 (SpecRelay): an offer, answer or ice-candidate naming target identity U,
\* sent by a connection bound to room R, is delivered only to live connections
\* whose bound identity is U and whose bound room is R.
C5_RelayOnlyToTargetInRoom ==
  \A i \in 1..Len(out) :
    out[i].ev \in RelayKinds
      => \A d \in out[i].to :
           Live(d) /\ userId[d] = out[i].data.to /\ roomId[d] = out[i].room

\* C6 (SpecPresence): when a connection closes while another live connection
\* is bound to the same identity, its disconnect handler does not take the
\* branch that writes isOnline = false; and isOnline goes from true to false
\* only in that branch of a disconnect handler.
C6_NoOfflineWhileOtherConnection ==
  [][/\ \A c \in Conns :
          (/\ sock[c] = "open" /\ sock'[c] = "closed" /\ userId[c] # Null
           /\ \E d \in Conns \ {c} : Live(d) /\ userId[d] = userId[c])
            => disc'[c].pc # "offline"
     /\ \A u \in Users :
          (isOnline[u] /\ ~ isOnline'[u])
            => \E c \in Conns : disc[c].pc = "offline" /\ disc[c].user = u
                                 /\ disc'[c].pc # "offline"]_vars

\* C6 witness: c1 and c2 were both bound to a when c1 closed; c1's disconnect
\* handler has finished, c2 is still connected and a is still online.
C6_SecondConnectionKeptOnline ==
  /\ sock["c1"] = "closed" /\ disc["c1"].pc = "done" /\ disc["c1"].user = "a"
  /\ "c2" \in disc["c1"].remaining
  /\ Live("c2") /\ userId["c2"] = "a"
  /\ isOnline["a"]

\* C7 (SpecPresence): once every authenticate and disconnect handler has
\* finished, an identity whose connections have all closed, and to which no
\* live connection is bound, has isOnline = false.
C7_OfflineAfterLastClose ==
  (\A c \in Conns : auth[c].pc = "idle" /\ disc[c].pc \in {"idle", "done"})
    => \A u \in Users :
         (/\ \E c \in Conns : sock[c] = "closed" /\ userId[c] = u
          /\ ~ \E c \in Conns : Live(c) /\ userId[c] = u)
           => ~ isOnline[u]

\* C8 (SpecAbsorb): after a connection has closed and all of its handlers have
\* finished, the registry holds no handle of it, and the identity it was bound
\* to has no active record in the room it was bound to unless another live
\* connection of that identity is bound to that room.
C8_CloseAbsorbed ==
  \A c \in Conns :
    (/\ sock[c] = "closed" /\ disc[c].pc = "done"
     /\ \A d \in Conns : auth[d].pc = "idle" /\ join[d].pc = "idle")
      => /\ \A u \in DOMAIN userSockets : c \notin userSockets[u]
         /\ (/\ userId[c] # Null /\ roomId[c] # Null
             /\ ~ \E d \in Conns : Live(d) /\ userId[d] = userId[c]
                                    /\ roomId[d] = roomId[c])
              => ~ HasActive(roomId[c], userId[c])

\* C9 (SpecSeq): a connection is in the channel of at most one room, the room
\* it is bound to; and when no handler is in flight, a non-host identity has
\* an active record in a room only if one of its live connections is bound to
\* that room.
C9_OneRoomAtATime ==
  /\ \A c \in Conns : chans[c] \subseteq {roomId[c]}
  /\ Quiescent =>
       \A r \in Rooms, u \in Users :
         (u # rooms[r].host /\ HasActive(r, u))
           => \E d \in Conns : Live(d) /\ userId[d] = u /\ roomId[d] = r

\* the outcomes the observer records
Joined(c) == [conn |-> c, op |-> "join-room", res |-> "room-joined"]
Refused(c) == [conn |-> c, op |-> "join-room", res |-> "Room is full"]
Left(c) == [conn |-> c, op |-> "leave-room", res |-> "left"]
CountOf(r) == rooms[r].currentParticipants

\* capacity 2, host H (c1) joined: A (c2) accepted with count 2, B (c3)
\* refused, H leaves and the count is 1, B accepted with count 2
C10_Scenario ==
  (rooms["r1"].maxParticipants = 2 /\ Quiescent) =>
    /\ hist = <<Joined("c1"), Joined("c2")>> => CountOf("r1") = 2
    /\ (Len(hist) = 3 /\ SubSeq(hist, 1, 2) = <<Joined("c1"), Joined("c2")>>
         /\ hist[3].conn = "c3" /\ hist[3].op = "join-room")
          => hist[3] = Refused("c3")
    /\ hist = <<Joined("c1"), Joined("c2"), Refused("c3"), Left("c1")>>
          => CountOf("r1") = 1
    /\ (Len(hist) = 5
         /\ SubSeq(hist, 1, 4) = <<Joined("c1"), Joined("c2"), Refused("c3"), Left("c1")>>
         /\ hist[5].conn = "c3" /\ hist[5].op = "join-room")
          => (hist[5] = Joined("c3") /\ CountOf("r1") = 2)

\* C10 (SpecCapacity): the eligibility check of join-room answers 'Room is
\* full' exactly when the stored currentParticipants is >= maxParticipants at
\* that check; and with capacity 2 and host H joined, A is accepted (count 2),
\* B is refused as full, after H leaves the count is 1, and B's retry is
\* accepted (count 2).
C10_RoomFullRule ==
  [][/\ \A c \in Conns :
          (join[c].pc = "findRoom" /\ join'[c].pc # "findRoom" /\ rooms[join[c].room].exists)
            => ((\E i \in 1..Len(out') : out'[i].ev = "error" /\ out'[i].data = "Room is full")
                  <=> CountOf(join[c].room) >= rooms[join[c].room].maxParticipants)
     /\ C10_Scenario']_vars

\* C10 witness: the whole scenario has run in a room of capacity 2.
C10_ScenarioRan ==
  /\ rooms["r1"].maxParticipants = 2
  /\ hist = <<Joined("c1"), Joined("c2"), Refused("c3"), Left("c1"), Joined("c3")>>
  /\ CountOf("r1") = 2

\* C11 (SpecPlayback): when the save of a video-seek with numeric time t, sent
\* by a connection that passed the host test, returns, the stored
\* playbackState.currentTime of the room is t, and video-seek {time: t} is
\* emitted once, to every other live connection in the room's channel and not
\* to the sender.
C11_HostSeekApplied ==
  [][\A c \in Conns :
       (/\ video[c].pc = "save" /\ video'[c].pc = "idle"
        /\ video[c].kind = "video-seek" /\ video[c].arg # NotANumber)
         => /\ rooms'[video[c].room].playbackState.currentTime = video[c].arg
            /\ Len(out') = 1
            /\ out'[1].ev = "video-seek" /\ out'[1].data = video[c].arg
            /\ out'[1].to = {d \in Conns \ {c} : Live(d) /\ video[c].room \in chans[d]}]_vars

\* C11 witness: the host's connection c1 sought to MaxTime; c2, in the room,
\* received the event, c1 did not, and the stored time is MaxTime.
C11_SeekBroadcast ==
  /\ Len(out) = 1 /\ out[1].ev = "video-seek" /\ out[1].from = "c1"
  /\ out[1].data = MaxTime /\ out[1].to = {"c2"}
  /\ rooms["r1"].playbackState.currentTime = MaxTime

\* C12 (SpecJoins): when the join-room handlers of two connections of different
\* identities for room r1 have finished, in whatever interleaving, and both
\* connections are bound to r1, the roster of r1 holds an active record of
\* each of the two identities.
C12_BothJoinsKept ==
  \A c, d \in Conns :
    (/\ NoJoinLeaveInFlight
     /\ Live(c) /\ Live(d) /\ userId[c] # Null /\ userId[d] # Null
     /\ userId[c] # userId[d]
     /\ roomId[c] = "r1" /\ roomId[d] = "r1")
      => (HasActive("r1", userId[c]) /\ HasActive("r1", userId[d]))

\* C12 witness: the joins of a (c1) and b (c2) overlapped (the stored count is
\* the stale one of the join that read first) and both records are there.
C12_OverlappedJoinsKept ==
  /\ NoJoinLeaveInFlight
  /\ userId["c1"] = "a" /\ userId["c2"] = "b"
  /\ roomId["c1"] = "r1" /\ roomId["c2"] = "r1"
  /\ HasActive("r1", "a") /\ HasActive("r1", "b")
  /\ Len(RosterOf("r1")) = 3
  /\ rooms["r1"].currentParticipants = 2

\* C13 (SpecTwoHosts): when one connection of the host sent video-seek with
\* time t and another sent video-pause, and nothing else was sent, then after
\* both handlers have finished the stored playbackState has currentTime = t
\* and isPlaying = false.
C13_NoLostPlaybackUpdate ==
  (Len(hist) = 2 /\ \A c \in Conns : video[c].pc = "idle") =>
    \A i, j \in 1..Len(hist) :
      (/\ hist[i].conn # hist[j].conn
       /\ hist[i].op = "video-seek" /\ hist[i].res # NotANumber
       /\ hist[j].op = "video-pause")
        => /\ rooms["r1"].playbackState.currentTime = hist[i].res
           /\ ~ rooms["r1"].playbackState.isPlaying

\* C14 (SpecOrder): when a connection sent join-room for r1 and then
\* leave-room, and nothing else, then after both handlers have finished the
\* connection is not bound to r1 and its identity has no active record in r1.
C14_LeaveAfterJoinTakesEffect ==
  \A c \in Conns :
    (/\ join[c].pc = "idle" /\ leave[c].pc = "idle"
     /\ SelectSeq(hist, LAMBDA e : e.conn = c)
          = <<Sent(c, "join-room", "r1"), Sent(c, "leave-room", Null)>>)
      => (roomId[c] # "r1" /\ ~ HasActive("r1", userId[c]))

\* C15 (SpecFailure): when the write that marks the identity offline fails
\* while a connection bound to a room closes, the close handler still
\* deactivates the identity's record: once the handler has ended, the identity
\* has no active record in the room the connection was bound to.
C15_DeactivatedDespiteFailure ==
  \A c \in Conns :
    (/\ disc[c].pc = "done" /\ roomId[c] # Null
     /\ \E i \in 1..Len(hist) : hist[i] = Sent(c, "disconnect", "failed"))
      => ~ HasActive(roomId[c], userId[c])

\* C16 (SpecAdmission): a join-room that fails validation (not authenticated,
\* room not found, room full, private room) emits exactly one 'error', to the
\* requesting connection alone, and leaves every room document, every room
\* binding and every channel membership as it was.
C16_RefusalTouchesNothing ==
  [][\A c \in Conns :
       (\/ /\ join[c].pc = "idle" /\ join'[c].pc = "idle"
           /\ budget'[c] # budget[c]
        \/ /\ join[c].pc = "findRoom" /\ join'[c].pc = "idle")
         => /\ Len(out') = 1
            /\ out'[1].ev = "error" /\ out'[1].to = {c}
            /\ out'[1].data \in {"Not authenticated", "Room not found",
                                  "Room is full", "Private room"}
            /\ rooms' = rooms /\ roomId' = roomId /\ chans' = chans]_vars

\* C16 witness: all four refusals have happened while a is in r1.
C16_AllRefusalsSeen ==
  /\ {hist[i] : i \in 1..Len(hist)}
       = {"Not authenticated", "Room not found", "Room is full", "Private room"}
  /\ roomId["c2"] = "r1" /\ InRoom("r1") = {"c2"}
  /\ Len(out) = 1 /\ out[1].ev = "error" /\ out[1].to # {"c2"}

\* C17 (SpecAdmission): 'Private room' is the answer only to an identity that
\* has no participant record in the room: an identity with a record, and the
\* host, are never refused for that reason.
C17_PrivateRefusalOnlyWithoutRecord ==
  \A i \in 1..Len(out) :
    (out[i].ev = "error" /\ out[i].data = "Private room")
      => FindIdx(rooms[out[i].room].participants, userId[out[i].from]) = 0

\* C18 (SpecAdmission): no join-room carries the password of a room, so no
\* connection becomes bound to a room that has a password configured, and no
\* identity other than the host gets a participant record in one.
C18_PasswordRoomNotEntered ==
  \A r \in Rooms :
    rooms[r].password # Null
      => /\ \A c \in Conns : roomId[c] # r
         /\ \A i \in 1..Len(rooms[r].participants) :
              rooms[r].participants[i].user = rooms[r].host

\* C19 (SpecSeq): when the leave-room handler of a connection bound to room R
\* finishes, the identity's record in R is inactive, the stored count is the
\* number of active records, 'user-left' with the stored roster goes to the
\* other connections in R's channel, and the connection's binding and its
\* subscription to R are released; and no room broadcast is ever delivered to
\* a connection that is not in the room's channel.
C19_LeaveCompletes ==
  [][/\ \A c \in Conns :
          (leave[c].pc = "reload" /\ leave'[c].pc = "idle")
            => LET R == roomId[c]
               IN /\ R # Null
                  /\ \A i \in 1..Len(rooms'[R].participants) :
                       rooms'[R].participants[i].user = userId[c]
                         => ~ rooms'[R].participants[i].isActive
                  /\ rooms'[R].currentParticipants = Len(ActiveOf(rooms'[R].participants))
                  /\ \E i \in 1..Len(out') :
                       /\ out'[i].ev = "user-left" /\ out'[i].room = R
                       /\ out'[i].to = {d \in Conns \ {c} : Live(d) /\ R \in chans[d]}
                       /\ out'[i].data = rooms'[R].participants
                  /\ roomId'[c] = Null /\ R \notin chans'[c]
     /\ \A i \in 1..Len(out') :
          out'[i].ev \notin {"room-joined", "error"}
            => \A d \in out'[i].to : out'[i].room \in chans'[d]]_vars

\* C19 witness: c1 (a) has left r1 while c2 (b) stays: c2 was sent 'user-left',
\* a's record is inactive, the count is the host and b.
C19_LeftWhileOtherStays ==
  /\ Len(out) = 2 /\ out[1].ev = "user-left" /\ out[1].from = "c1" /\ out[1].to = {"c2"}
  /\ roomId["c1"] = Null /\ chans["c1"] = {}
  /\ userId["c2"] = "b" /\ roomId["c2"] = "r1"
  /\ ~ HasActive("r1", "a") /\ FindIdx(rooms["r1"].participants, "a") # 0
  /\ rooms["r1"].currentParticipants = 2

\* C20 (SpecSeq): a leave-room processed for a joined connection emits an
\* event to the leaving connection itself: whenever 'user-left' of a live
\* connection's leave is in the output, some emitted event is addressed to it.
C20_LeaverIsAnswered ==
  \A i \in 1..Len(out) :
    (out[i].ev = "user-left" /\ Live(out[i].from))
      => \E j \in 1..Len(out) : out[i].from \in out[j].to

\* C21 (SpecHost): no step of a socket handler changes the host of a room, and
\* the playback state, status and video file of a room change only when the
\* playback handler of a connection bound to the host's identity saves; this
\* holds while the host has left or closed and other participants stay.
C21_HostNeverChanges ==
  [][\A r \in Rooms :
       /\ rooms'[r].host = rooms[r].host
       /\ PlaybackOf(rooms'[r]) # PlaybackOf(rooms[r])
            => \E c \in Conns : /\ video[c].pc = "save" /\ video'[c].pc = "idle"
                                /\ video[c].room = r /\ userId[c] = rooms[r].host]_vars

\* C21 witness: the host's only connection has closed, a is still active in
\* r1, a's playback request was ignored while the host had no active record,
\* and h is still the host.
C21_GuestAloneStillGuest ==
  /\ sock["c1"] = "closed" /\ disc["c1"].pc = "done"
  /\ roomId["c2"] = "r1" /\ HasActive("r1", "a") /\ ~ HasActive("r1", "h")
  /\ \E i \in 1..Len(hist) :
       hist[i] = [conn |-> "c2", op |-> "host away", res |-> "ignored"]
  /\ rooms["r1"].host = "h"

\* C22 (SpecSeq): when no handler is in flight and no delayed emit is pending,
\* a participant record of a non-host identity U in room R is active if and
\* only if some live connection bound to U is bound to R.
C22_ActiveIffBoundConnection ==
  Settled =>
    \A r \in Rooms : \A i \in 1..Len(rooms[r].participants) :
      LET p == rooms[r].participants[i]
      IN p.user # rooms[r].host
           => (p.isActive <=> \E c \in Conns : Live(c) /\ userId[c] = p.user /\ roomId[c] = r)

\* C23 (SpecSignOut): while an identity has a registered connection, its
\* stored online flag goes from true to false only by the offline write of a
\* disconnect handler, which is issued only when the identity's registry entry
\* has become empty and was removed.
C23_OfflineOnlyByLastClose ==
  [][\A u \in Users :
       (isOnline[u] /\ ~ isOnline'[u] /\ getUserSocketIds(userSockets, u) # {})
         => \E c \in Conns : /\ disc[c].pc = "offline" /\ disc'[c].pc # "offline"
                             /\ disc[c].user = u]_vars

\* C24 (SpecSignal): an offer, answer or ice-candidate sent by a connection
\* that is not authenticated or is bound to no room emits nothing, to the
\* sender or to anyone, and changes nothing but the count of requests sent.
C24_UnboundRelayDropped ==
  [][\A c \in Conns :
       (/\ budget'[c] # budget[c]
        /\ Len(hist') = 1 /\ hist'[1].conn = c /\ hist'[1].op \in RelayKinds
        /\ (userId[c] = Null \/ roomId[c] = Null))
         => /\ out' = <<>>
            /\ UNCHANGED <<sockVars, userSockets, dbVars, handlerVars, timers>>]_vars

\* C24 witness: a, bound to no room, has just sent an offer for h while h's
\* connection is in r1 and another one, not authenticated, has sent one too.
C24_DroppedWhileTargetPresent ==
  /\ hist = <<Sent("c2", "offer", Null)>>
  /\ roomId["c2"] = Null /\ roomId["c1"] = "r1"
  /\ budget["c3"] < MaxReqSignal /\ userId["c3"] = Null
  /\ out = <<>>

\* C25 (SpecSignal): every relayed offer, answer or ice-candidate carries as
\* 'from' the identity its sending connection is bound to, whatever 'from' the
\* client supplied, and goes to the registered connections of the target that
\* are bound to the sender's room: neither depends on the supplied 'from'.
C25_FromIsSenderIdentity ==
  \A i \in 1..Len(out) :
    out[i].ev \in RelayKinds
      => /\ out[i].data.from = userId[out[i].from]
         /\ out[i].to = emitToUserInSameRoom(out[i].data.to, roomId[out[i].from])

\* C25 witness: a, in r1 with the host, sent an answer for h that claimed to
\* come from h; it was delivered to h's connection as coming from a.
C25_ForgedFromOverwritten ==
  /\ hist = <<Sent("c2", "answer", "h")>>
  /\ Len(out) = 1 /\ out[1].ev = "answer" /\ out[1].from = "c2"
  /\ out[1].to = {"c1"} /\ out[1].data.from = "a"

C27_AuthErrorLeavesNoBinding ==
  \A c \in Conns :
    (/\ Len(hist) = 1 /\ hist[1].conn = c /\ auth[c].pc = "idle"
     /\ \E i \in 1..Len(out) : out[i].ev = "auth-error" /\ out[i].from = c)
      => (userId[c] = hist[1].res[1] /\ userSockets = hist[1].res[2])

\* C28 (SpecRace): when a join-room handler finishes successfully it emits
\* 'room-joined' to the joining connection first, with a roster in which the
\* joining identity is active, and then 'participants-updated' and
\* 'user-joined', which reach every other connection in the room with a roster
\* and a count that include the joiner.
C28_JoinAnnounced ==
  [][\A c \in Conns :
       (join[c].pc = "setCount" /\ join'[c].pc = "idle")
         => LET r == join[c].room
                HasJoiner(data) ==
                  /\ \E i \in 1..Len(data.participants) :
                       data.participants[i].user = userId[c] /\ data.participants[i].isActive
                  /\ data.currentParticipants = Len(data.participants)
            IN /\ Len(out') = 3
               /\ out'[1].ev = "room-joined" /\ out'[1].to = {c} /\ HasJoiner(out'[1].data)
               /\ out'[2].ev = "participants-updated" /\ HasJoiner(out'[2].data)
               /\ out'[3].ev = "user-joined" /\ HasJoiner(out'[3].data)
               /\ \A d \in Conns \ {c} :
                    (Live(d) /\ r \in chans[d]) => (d \in out'[2].to /\ d \in out'[3].to)]_vars

\* C29 (SpecRegistry): the registry never maps an identity to the empty set;
\* addUserSocket adds the handle and changes nothing when it is already there;
\* removeUserSocket takes the handle out, deletes the identity's entry with its
\* last handle and changes nothing for an unknown identity; getUserSocketIds
\* returns the identity's handles, none for an unknown identity, and leaves
\* the registry as it was.
C29_RegistryHasNoEmptyEntry ==
  /\ \A u \in DOMAIN userSockets : userSockets[u] # {}
  /\ Len(hist) = 1 =>
       LET h == hist[1]
           was == IF h.user \in DOMAIN h.before THEN h.before[h.user] ELSE {}
           others == \A v \in Users \ {h.user} :
                       /\ v \in DOMAIN userSockets <=> v \in DOMAIN h.before
                       /\ v \in DOMAIN userSockets => userSockets[v] = h.before[v]
       IN /\ h.op = "addUserSocket" =>
               /\ h.user \in DOMAIN userSockets
               /\ userSockets[h.user] = was \cup {h.conn}
               /\ others
               /\ h.conn \in was => userSockets = h.before
          /\ h.op = "removeUserSocket" =>
               /\ was \subseteq {h.conn} => h.user \notin DOMAIN userSockets
               /\ ~ (was \subseteq {h.conn}) =>
                    /\ h.user \in DOMAIN userSockets
                    /\ userSockets[h.user] = was \ {h.conn}
               /\ others
               /\ h.user \notin DOMAIN h.before => userSockets = h.before
          /\ h.op = "getUserSocketIds" =>
               /\ h.res = was
               /\ userSockets = h.before

\* C29 witness: the last handle of a was just removed while b is registered:
\* a's entry is gone and b's is untouched.
C29_LastHandleRemoved ==
  /\ Len(hist) = 1 /\ hist[1].op = "removeUserSocket"
  /\ hist[1].user = "a" /\ hist[1].conn = "c1"
  /\ "a" \in DOMAIN hist[1].before /\ hist[1].before["a"] = {"c1"}
  /\ "a" \notin DOMAIN userSockets
  /\ "b" \in DOMAIN userSockets /\ userSockets["b"] = {"c2", "c3"}

\* C30 (SpecHttp): after addParticipant has completed for an admitted
\* joinRoom, the room's currentParticipants is the number of its active
\* participant records, also when the identity had an inactive record.
C30_CountAfterAddParticipant ==
  (Len(hist) = 1 /\ hist[1].op = "joinRoom" /\ hist[1].res = "ok")
    => rooms[hist[1].room].currentParticipants
         = Len(ActiveOf(rooms[hist[1].room].participants))

\* C31 (SpecTwoHosts): the stored status of a room is 'playing' exactly when
\* its stored isPlaying is true, and a video-seek that is saved leaves the
\* stored isPlaying and status as they are.
C31_StatusFollowsIsPlaying ==
  /\ [](\A r \in Rooms :
         rooms[r].exists => (rooms[r].status = "playing" <=> rooms[r].playbackState.isPlaying))
  /\ [][\A c \in Conns :
          (video[c].pc = "save" /\ video'[c].pc = "idle" /\ video[c].kind = "video-seek")
            => /\ rooms'[video[c].room].playbackState.isPlaying
                    = rooms[video[c].room].playbackState.isPlaying
               /\ rooms'[video[c].room].status = rooms[video[c].room].status]_vars

\* C32 (SpecPlayback): when an accepted video-play or video-pause is saved,
\* one event of that name goes to every other connection in the room and
\* carries the currentTime that is stored for the room after the save.
C32_SetPlayingCarriesTime ==
  [][\A c \in Conns :
       (/\ video[c].pc = "save" /\ video'[c].pc = "idle"
        /\ video[c].kind \in {"video-play", "video-pause"})
         => /\ Len(out') = 1 /\ out'[1].ev = video[c].kind
            /\ out'[1].to = {d \in Conns \ {c} : Live(d) /\ video[c].room \in chans[d]}
            /\ out'[1].data = rooms'[video[c].room].playbackState.currentTime]_vars

\* C33 (SpecSlot): in every state the number of active participant records of
\* a room is at most the room's maxParticipants.
C33_ActiveWithinCapacity ==
  \A r \in Rooms :
    rooms[r].exists => Len(ActiveOf(rooms[r].participants)) <= rooms[r].maxParticipants

\* C34 (SpecRelay): when no handler is in flight, every handle the registry
\* holds under an identity U is an open connection whose bound identity is U
\* (so a connection is registered under at most one identity, and a closed
\* connection under none).
C34_RegistryMatchesBinding ==
  Quiescent =>
    \A u \in DOMAIN userSockets :
      \A c \in userSockets[u] : Live(c) /\ userId[c] = u

\* C35 (SpecSeq): when no handler of an open connection is in flight, the
\* connection is subscribed to no room channel if it is bound to no room and
\* to exactly the channel of its bound room otherwise; and a message sent
\* into a room's channel reaches only connections bound to that room.
C35_ChannelsAreTheBinding ==
  /\ \A c \in Conns :
       (/\ Live(c) /\ auth[c].pc = "idle" /\ join[c].pc = "idle"
        /\ leave[c].pc = "idle" /\ video[c].pc = "idle" /\ sync[c].pc = "idle")
         => chans[c] = IF roomId[c] = Null THEN {} ELSE {roomId[c]}
  /\ Settled =>
       \A i \in 1..Len(out) :
         out[i].room # Null => \A d \in out[i].to : roomId[d] = out[i].room

\* C36 (SpecJoinFail): when a join-room request ends with 'Failed to join
\* room' after the eligibility check has passed, the connection's room
\* binding and its channel subscriptions are what they were when the request
\* was made.
C36_FailedJoinLeavesBindingAlone ==
  [][\A c \in Conns :
       (join[c].pc \in {"upsert", "reload", "setCount"} /\ join'[c].pc = "idle"
        /\ Len(out') = 1 /\ out'[1].ev = "error")
         => \A i \in 1..Len(hist) :
              hist[i].conn = c => <<roomId'[c], chans'[c]>> = hist[i].res]_vars

\* C37 (SpecHost): a full snapshot of a room ('room-sync', 'room-joined') is
\* delivered only to connections bound to that room; and a request-room-sync
\* or force-room-sync handler of a connection that is not bound to the room it
\* names ends without emitting anything.
C37_SnapshotOnlyForMembers ==
  /\ [](\A i \in 1..Len(out) :
          out[i].ev \in {"room-sync", "room-joined"}
            => \A d \in out[i].to : roomId[d] = out[i].room)
  /\ [][\A c \in Conns :
          (/\ sync[c].pc # "idle" /\ sync'[c].pc = "idle"
           /\ sync[c].kind \in {"request-room-sync", "force-room-sync"}
           /\ roomId[c] # sync[c].room)
            => out' = <<>>]_vars

\* C38 (SpecDelayed): the delayed 'room-sync' and 'peer-joined' of a join are
\* delivered to nobody who has already been sent the 'user-left' / 'peer-left'
\* of the same connection's later leave; hence a delayed 'room-sync' never
\* lists the joiner to a member who was told since that the joiner left.
C38_DelayedEmitsPrecedeLeave ==
  [][(timers' # timers /\ Len(out') = 1 /\ out'[1].ev \in {"room-sync", "peer-joined"})
       => \A i \in 1..Len(hist) :
            hist[i].conn = out'[1].from => hist[i].res \cap out'[1].to = {}]_vars

\* C39 (SpecJoinFail): the step that ends a join-room handler (the early
\* return of an unauthenticated connection, a refusal, the success path, or
\* the catch block after a store failure) emits exactly one 'room-joined' or
\* 'error' to the requester, and no earlier step of the handler emits either.
C39_OneReplyPerJoin ==
  [][\A c \in Conns :
       LET replies == {i \in 1..Len(out') :
                         /\ out'[i].ev \in {"room-joined", "error"}
                         /\ out'[i].from = c /\ out'[i].to = {c}}
       IN /\ (join'[c].pc = "idle" /\ (join[c].pc # "idle" \/ budget'[c] < budget[c]))
               => Cardinality(replies) = 1
          /\ (join'[c].pc # "idle" /\ join'[c] # join[c])
               => replies = {}]_vars

\* C39 witness: a handler has just ended in the catch block, and its one
\* emit is the 'error' to the requester, who is left bound to the room.
C39_FailureReplied ==
  \E c \in Conns :
    /\ join[c].pc = "idle" /\ roomId[c] # Null
    /\ Len(out) = 1 /\ out[1].ev = "error" /\ out[1].to = {c}
    /\ out[1].data = "Failed to join room"


====
